---- MODULE Spec2Model ----
(***************************************************************************)
(* State-machine model of buildkit-cli-for-kubectl:                        *)
(*   - the in-cluster proxy's session fabric (Session, Solve, the          *)
(*     file-send hijack),                                                  *)
(*   - the proxy's image load fan-out and the peer Load RPC,               *)
(*   - the kubernetes driver's Bootstrap convergence loop.                 *)
(* Each subsystem has its own specification over the shared variables; the *)
(* variables of the other subsystems stay at their initial value.          *)
(***************************************************************************)
EXTENDS Integers, Sequences, FiniteSets, TLC

(***************************************************************************)
(* Bounds of the model.                                                    *)
(***************************************************************************)
MaxChunks == 2     \* chunks of a stream
MaxMdKeys == 1     \* metadata keys of a file-send stream
MaxInFlight == 1   \* messages queued on a Load stream
MaxListen == 2     \* builds holding the peer listener at once
MaxNodes == 2      \* nodes of a Replicate request
MaxPlatforms == 2  \* platforms of a ChoosePod request
MaxRnd == 1        \* values drawn from the random source
MaxDrivers == 2    \* drivers of a build
MaxPairs == 2      \* driver pairs of a target

VARIABLES
  sessions,   \* server.sessions: session ID -> the sessionProxies of the entry
  rpc,        \* the Session RPC invocations
  solve,      \* the Solve RPC invocations
  dc          \* the fileSendProxy.DiffCopy invocations

proxyVars == <<sessions, rpc, solve, dc>>

VARIABLES
  remotes,          \* server.remotes: the replication roster
  replicationLock,  \* server.replicationLock is held
  il,               \* the ImageLoad invocation and its errgroup
  copier,           \* ImageLoad's io.Copy task into the MultiWriter
  local,            \* ImageLoad's load into the local runtime
  snd,              \* ImageLoad's sender task of each roster entry
  st,               \* the Load stream opened to each peer, client side
  lh,               \* the Load handler serving each stream on its node
  ext               \* a remote caller of Load other than ImageLoad

loadVars == <<remotes, replicationLock, il, copier, local, snd, st, lh, ext>>

VARIABLES
  nodeRuntime,      \* the container runtime of the cluster's nodes
  configMaps,       \* the ConfigMap objects of the builder's namespace
  deployments,      \* the Deployment objects of the builder's namespace
  pods,             \* the pods of the builder's replica sets
  boot              \* the Bootstrap invocation of each CLI process

bootVars == <<nodeRuntime, configMaps, deployments, pods, boot>>

VARIABLES
  outer             \* the driver.Boot call of each CLI process

outerVars == <<outer>>

VARIABLES
  listenRefCount,   \* server.listenRefCount
  listener,         \* the TCP listener of the peer port
  grpcServer,       \* server.grpcServer
  serveTask,        \* the task Listen starts to run grpcServer.Serve
  call              \* the latest Listen, StopListen or Replicate call

listenVars == <<listenRefCount, listener, grpcServer, serveTask, call>>

VARIABLES
  podItems,         \* the builder's pods the cluster API holds
  chooser           \* the ChoosePod calls made since the pods last changed

chooseVars == <<podItems, chooser>>

VARIABLES
  resolve           \* the resolveDrivers call of a build

resolveVars == <<resolve>>

VARIABLES
  build,            \* the Build call's preparation of its solve options
  tempDirs          \* the temporary directories on the CLI's disk

buildVars == <<build, tempDirs>>

VARIABLES
  sessionMd         \* the metadata each Session RPC came with, when observed

mdVars == <<sessionMd>>

VARIABLES
  rm                \* the Driver.Rm call of the rm command

rmVars == <<rm>>

VARIABLES
  tso               \* a toSolveOpt call of Build, and the solve that follows it

optVars == <<tso>>

vars == <<proxyVars, loadVars, bootVars, listenVars, outerVars, chooseVars,
          resolveVars, buildVars, mdVars, rmVars, optVars>>

\* What the actions of one part of the program leave alone.
cliVars == <<resolveVars, buildVars>>
notProxy == <<loadVars, bootVars, listenVars, outerVars, chooseVars, cliVars, mdVars, rmVars, optVars>>
notLoad == <<proxyVars, bootVars, listenVars, outerVars, chooseVars, cliVars, mdVars, rmVars, optVars>>
notBoot == <<proxyVars, loadVars, listenVars, outerVars, chooseVars, cliVars, mdVars, rmVars, optVars>>
notListen == <<proxyVars, bootVars, outerVars, chooseVars, cliVars, mdVars, rmVars, optVars, replicationLock, il, copier, local, snd, st, lh, ext>>
notOuter == <<proxyVars, loadVars, listenVars, chooseVars, cliVars, mdVars, rmVars, optVars>>
notChoose == <<proxyVars, loadVars, bootVars, listenVars, outerVars, cliVars, mdVars, rmVars, optVars>>
notResolve == <<proxyVars, loadVars, bootVars, listenVars, outerVars, chooseVars, buildVars, mdVars, rmVars, optVars>>
notBuild == <<proxyVars, loadVars, bootVars, listenVars, outerVars, chooseVars, resolveVars, mdVars, rmVars, optVars>>

\* No Boot call yet; a nil error is the empty chain of messages.
IdleOuter == [pc |-> "idle", err |-> <<>>]

OuterIdle == outer = [p \in {"cli1", "cli2"} |-> IdleOuter]

\* No pods and no ChoosePod call yet.
NoChoice == [op |-> "none", key |-> "", platformList |-> <<>>, repeated |-> FALSE,
             filtered |-> FALSE, kept |-> {}, outs |-> {}]
ChooseIdle == podItems = {} /\ chooser = NoChoice

\* No build yet.
NoResolve == [pc |-> "idle"]
NoBuild == [pc |-> "idle"]
CliIdle == resolve = NoResolve /\ build = NoBuild /\ tempDirs = {}

\* No Session RPC observed yet.
NoMd == <<>>
MdIdle == sessionMd = [r \in {1, 2} |-> NoMd]

\* No Rm call yet.
NoRm == [pc |-> "idle", err |-> <<>>, returned |-> {}, alone |-> FALSE]
RmIdle == rm = NoRm

\* No toSolveOpt call yet.
NoOpt == [pc |-> "idle", at |-> "none", err |-> ""]
OptIdle == tso = NoOpt

(***************************************************************************)
(* Strings that the code inspects character by character are sequences of  *)
(* one-character strings.                                                  *)
(***************************************************************************)
keyExporterMetaPrefix == <<"e","x","p","o","r","t","e","r","-","m","d","-">>

HasPrefix(s, prefix) ==
  /\ Len(s) >= Len(prefix)
  /\ SubSeq(s, 1, Len(prefix)) = prefix

TrimPrefix(s, prefix) ==
  IF HasPrefix(s, prefix) THEN SubSeq(s, Len(prefix) + 1, Len(s)) ELSE s

\* Metadata keys a file-send stream may carry: an exporter key, a key that
\* misses the prefix by its last character, and an unrelated key.
MdKeys ==
  { keyExporterMetaPrefix \o <<"f","o","o">>,
    <<"e","x","p","o","r","t","e","r","-","m","d">>,
    <<"d","i","r","-","n","a","m","e">> }

MdKeySets == { S \in SUBSET MdKeys : Cardinality(S) <= MaxMdKeys }

SessionIDs == {"s1", "s2"}
NoID == "none"
NoErr == "nil"

\* Values of a metadata header: the list md.Get returns.
HeaderLists(V) == {<<>>} \cup { <<v>> : v \in V } \cup { <<v, w>> : v \in V, w \in V }

Exporters == {"", "image", "docker", "oci", "local"}
AttrMaps == { {}, {<<"name", "t1:v1">>} }

\* The invocations of each RPC that may be in flight together.
SessRPCs == {1, 2}
Solves == {1}
DiffCopies == {1}

\* A stream of n chunks; chunk i carries the value i.
Payloads == { [i \in 1..n |-> i] : n \in 0..MaxChunks }

(***************************************************************************)
(* sessionProxies and server.getSession                                    *)
(*                                                                         *)
(* The map holds pointers.  The only write through a pointer obtained from *)
(* getSession that is ever read back is addLocalExporter's write of        *)
(* exporterAttrs (the field fileSendProxy is written by Session and never  *)
(* read), so an entry is modelled by its exporterAttrs, and a Solve that   *)
(* holds a pointer records whether that pointer is still the map's entry:  *)
(* a delete turns the pointers handed out before it into orphans.          *)
(***************************************************************************)
NewSessionProxies == [exporterAttrs |-> {}]

\* getSession under sessionsLock: the map after the call (the entry of
\* sessionID is created when absent); the call returns the entry.
getSession(sessionID) ==
  IF sessionID \in DOMAIN sessions
    THEN sessions
    ELSE [id \in DOMAIN sessions \cup {sessionID} |->
            IF id = sessionID THEN NewSessionProxies ELSE sessions[id]]

\* delete(s.sessions, sessionID)
deleteSession(sessionID) ==
  [id \in DOMAIN sessions \ {sessionID} |-> sessions[id]]

\* The two directions of a pass-through pipe: buildkitd to the CLI and back.
Dirs == {"toCLI", "toBuildkitd"}

\* A pass-through pipe not yet set up: its kind, the copy task of each
\* direction with the messages it has passed on, and the handler waiting on
\* the channel `finished`.
NoPipe == [kind |-> "none",
           copier |-> [dir \in Dirs |-> [pc |-> "off", n |-> 0, err |-> NoErr]],
           handler |-> "off"]

IdleRpc == [pc |-> "idle", sid |-> NoID, err |-> NoErr]
IdleSolve == [pc |-> "idle", sid |-> NoID, exporter |-> "", attrs |-> {}, spLive |-> FALSE]
IdleDc == [pc |-> "idle", sid |-> NoID, mdExporter |-> FALSE, attrsSeen |-> {},
           route |-> "none", payload |-> <<>>,
           toLoader |-> <<>>, toClient |-> <<>>, err |-> NoErr, pipe |-> NoPipe]

ProxyInit ==
  /\ sessions = << >>
  /\ rpc = [r \in SessRPCs |-> IdleRpc]
  /\ solve = [q \in Solves |-> IdleSolve]
  /\ dc = [d \in DiffCopies |-> IdleDc]

\* Invocation slots are used in order.
RpcFree(r) == rpc[r].pc = "idle" /\ (IF r = 1 THEN TRUE ELSE rpc[r - 1].pc # "idle")
SolveFree(q) == solve[q].pc = "idle" /\ (IF q = 1 THEN TRUE ELSE solve[q - 1].pc # "idle")
DcFree(d) == dc[d].pc = "idle" /\ (IF d = 1 THEN TRUE ELSE dc[d - 1].pc # "idle")

(***************************************************************************)
(* server.Session                                                          *)
(***************************************************************************)
\* The header checks that let a request through on its session ID alone.
SessionHeadersOKIdOnly(nameList, keyList, idList) == Len(idList) = 1

\* The three header checks of Session.
SessionHeadersOK(nameList, keyList, idList) ==
  /\ Len(nameList) = 1
  /\ Len(keyList) = 1
  /\ Len(idList) = 1

\* The handler from its entry up to and including getSession, for the values
\* md.Get returns for the three headers.
SessionCheck(r, nameList, keyList, idList) ==
  IF SessionHeadersOK(nameList, keyList, idList)
    THEN /\ rpc' = [rpc EXCEPT ![r] = [pc |-> "setup", sid |-> idList[1],
                                        err |-> NoErr]]
         /\ sessions' = getSession(idList[1])
    ELSE /\ rpc' = [rpc EXCEPT ![r] = [pc |-> "done", sid |-> NoID,
                                        err |-> "malformed session header"]]
         /\ UNCHANGED sessions

\* Entry of the handler up to and including getSession.
SessionEnter(r) ==
  /\ RpcFree(r)
  /\ \E nameList \in HeaderLists({"n"}), keyList \in HeaderLists({"k"}),
        idList \in HeaderLists(SessionIDs) :
       SessionCheck(r, nameList, keyList, idList)
  /\ UNCHANGED <<solve, dc, notProxy>>

\* The same entry, with the request's metadata kept for inspection.
SessionEnterObserved(r) ==
  /\ RpcFree(r)
  /\ \E nameList \in HeaderLists({"n"}), keyList \in HeaderLists({"k"}),
        idList \in HeaderLists(SessionIDs) :
       /\ SessionCheck(r, nameList, keyList, idList)
       /\ sessionMd' = [sessionMd EXCEPT ![r] = <<nameList, keyList, idList>>]
  /\ UNCHANGED <<solve, dc, loadVars, bootVars, listenVars, outerVars, chooseVars, cliVars,
                 rmVars, optVars>>

\* s.buildkitd.Session, session.NewManager, outgoingManager.Get and
\* session.NewSession: all succeed and the two session tasks are started, or
\* the first that fails makes the handler return its error.
SessionSetup(r) ==
  /\ rpc[r].pc = "setup"
  /\ \/ rpc' = [rpc EXCEPT ![r].pc = "running"]
     \/ rpc' = [rpc EXCEPT ![r] = [pc |-> "done", sid |-> NoID,
                                   err |-> "unable to establish session"]]
  /\ UNCHANGED <<sessions, solve, dc, notProxy>>

\* The Solves that hold a pointer to the entry of sessionID.
HoldsEntry(q, sessionID) ==
  /\ solve[q].pc = "setAttrs"
  /\ solve[q].sid = sessionID

\* g.Wait() returns, the entry is deleted under the lock, the handler returns.
SessionFinish(r) ==
  /\ rpc[r].pc = "running"
  /\ \E e \in {NoErr, "session error"} :
       rpc' = [rpc EXCEPT ![r] = [pc |-> "done", sid |-> NoID, err |-> e]]
  /\ sessions' = deleteSession(rpc[r].sid)
  /\ solve' = [q \in Solves |->
                 IF HoldsEntry(q, rpc[r].sid)
                   THEN [solve[q] EXCEPT !.spLive = FALSE]
                   ELSE solve[q]]
  /\ UNCHANGED <<dc, notProxy>>

(***************************************************************************)
(* server.Solve and server.addLocalExporter                                *)
(***************************************************************************)
\* The condition under which Solve calls addLocalExporter.
SolveHijacks(exporter, exporterAttrs) ==
  /\ exporter # ""
  /\ exporter \in {"image", "docker", "oci"}
  /\ Cardinality(exporterAttrs) > 0

\* Entry of Solve; addLocalExporter's getSession when the request is hijacked.
SolveEnter(q) ==
  /\ SolveFree(q)
  /\ \E sessionID \in SessionIDs, exporter \in Exporters, exporterAttrs \in AttrMaps :
       IF SolveHijacks(exporter, exporterAttrs)
         THEN /\ solve' = [solve EXCEPT ![q] = [pc |-> "setAttrs", sid |-> sessionID,
                                exporter |-> exporter,
                                attrs |-> exporterAttrs, spLive |-> TRUE]]
              /\ sessions' = getSession(sessionID)
         ELSE /\ solve' = [solve EXCEPT ![q] = [pc |-> "forward", sid |-> sessionID,
                                exporter |-> exporter,
                                attrs |-> exporterAttrs, spLive |-> FALSE]]
              /\ UNCHANGED sessions
  /\ UNCHANGED <<rpc, dc, notProxy>>

\* addLocalExporter: session.exporterAttrs = req.ExporterAttrs, through the
\* pointer getSession returned.
addLocalExporter(q) ==
  /\ solve[q].pc = "setAttrs"
  /\ sessions' = IF solve[q].spLive
                   THEN [sessions EXCEPT ![solve[q].sid].exporterAttrs = solve[q].attrs]
                   ELSE sessions
  /\ solve' = [solve EXCEPT ![q] = [solve[q] EXCEPT !.pc = "forward", !.spLive = FALSE]]
  /\ UNCHANGED <<rpc, dc, notProxy>>

\* s.buildkitd.Solve(ctx, req) is called with the request and returns; Solve
\* returns its result.
SolveForward(q) ==
  /\ solve[q].pc = "forward"
  /\ solve' = [solve EXCEPT ![q] = [IdleSolve EXCEPT !.pc = "done"]]
  /\ UNCHANGED <<sessions, rpc, dc, notProxy>>

(***************************************************************************)
(* server.HijackRequired and fileSendProxy.DiffCopy                        *)
(***************************************************************************)
\* The exporter metadata DiffCopy extracts: the prefixed keys, prefix removed.
exporterMetadata(mdKeys) ==
  { TrimPrefix(key, keyExporterMetaPrefix) :
      key \in { k \in mdKeys : HasPrefix(k, keyExporterMetaPrefix) } }

\* HijackRequired reads the entry getSession returns: an entry that
\* getSession has to create has no exporter attributes.
HijackRequired(sessionID) ==
  Cardinality(getSession(sessionID)[sessionID].exporterAttrs) > 0

\* A routing where either condition alone selects the hijack.
DiffCopyHijacksEither(mdKeys, sessionID) ==
  \/ Cardinality(exporterMetadata(mdKeys)) > 0
  \/ HijackRequired(sessionID)

\* The test of DiffCopy that selects the hijack.
DiffCopyHijacks(mdKeys, sessionID) ==
  /\ Cardinality(exporterMetadata(mdKeys)) > 0
  /\ HijackRequired(sessionID)

\* The exporter attributes recorded for the session.
RecordedAttrs(sessionID) ==
  IF sessionID \in DOMAIN sessions THEN sessions[sessionID].exporterAttrs ELSE {}

\* buildkitd opens a file-send stream on the running session of r.
DiffCopyEnter(d) ==
  /\ DcFree(d)
  /\ \E r \in SessRPCs, mdKeys \in MdKeySets, payload \in Payloads :
       /\ rpc[r].pc = "running"
       /\ LET sessionID == rpc[r].sid
              hijack == DiffCopyHijacks(mdKeys, sessionID)
          IN /\ dc' = [dc EXCEPT ![d] =
                         [IdleDc EXCEPT !.pc = IF hijack THEN "pump" ELSE "dial",
                                        !.sid = sessionID,
                                        !.mdExporter =
                                           (\E k \in mdKeys : HasPrefix(k, keyExporterMetaPrefix)),
                                        !.attrsSeen = RecordedAttrs(sessionID),
                                        !.route = IF hijack THEN "loader" ELSE "client",
                                        !.payload = payload]]
             \* the && calls HijackRequired, and with it getSession, only
             \* when exporter metadata is present
             /\ sessions' = IF Cardinality(exporterMetadata(mdKeys)) > 0
                              THEN getSession(sessionID)
                              ELSE sessions
  /\ UNCHANGED <<rpc, solve, notProxy>>

\* fsp.c.DiffCopy(ctx): the stream to the CLI is established or DiffCopy fails.
DiffCopyDial(d) ==
  /\ dc[d].pc = "dial"
  /\ \/ dc' = [dc EXCEPT ![d].pc = "pump"]
     \/ dc' = [dc EXCEPT ![d].pc = "done",
                         ![d].err = "failed to establish DiffCopy to CLI"]
  /\ UNCHANGED <<sessions, rpc, solve, notProxy>>

\* The number of messages of the payload already passed on.
Passed(d) == Len(dc[d].toLoader) + Len(dc[d].toClient)

\* One message from buildkitd is received and written to the pipe of the
\* image load (hijack) or sent to the CLI (pass-through).
DiffCopyPump(d) ==
  /\ dc[d].pc = "pump"
  /\ Passed(d) < Len(dc[d].payload)
  /\ LET chunk == dc[d].payload[Passed(d) + 1]
     IN IF dc[d].route = "loader"
          THEN dc' = [dc EXCEPT ![d].toLoader = Append(@, chunk)]
          ELSE dc' = [dc EXCEPT ![d].toClient = Append(@, chunk)]
  /\ UNCHANGED <<sessions, rpc, solve, notProxy>>

\* The stream from buildkitd ends with io.EOF: the pipe is closed and DiffCopy
\* returns what ImageLoad returns (hijack), or DiffCopy returns nil
\* (pass-through).
DiffCopyEOF(d) ==
  /\ dc[d].pc = "pump"
  /\ Passed(d) = Len(dc[d].payload)
  /\ \E e \in IF dc[d].route = "loader" THEN {NoErr, "image load error"} ELSE {NoErr} :
       dc' = [dc EXCEPT ![d].pc = "done", ![d].err = e]
  /\ UNCHANGED <<sessions, rpc, solve, notProxy>>

\* The image load failing (hijack), or a stream error or the end of the CLI's
\* direction (pass-through), make DiffCopy return before the payload is
\* through.
DiffCopyAbort(d) ==
  /\ dc[d].pc = "pump"
  /\ \E e \in IF dc[d].route = "loader"
                THEN {"image load error"}
                ELSE {NoErr, "stream error"} :
       dc' = [dc EXCEPT ![d].pc = "done", ![d].err = e]
  /\ UNCHANGED <<sessions, rpc, solve, notProxy>>

(***************************************************************************)
(* Image load fan-out: server.ImageLoad, and server.Load on the peers      *)
(***************************************************************************)
PeerAddrs == {"p1", "p2"}
Keys == {"k1", "k2"}

\* server.listenKey of the proxy at an address.
listenKey(addr) == IF addr = "p1" THEN "k1" ELSE "k2"

\* Stream k is the one ImageLoad opens for the k-th roster entry.
StreamIds == 1..Cardinality(PeerAddrs)

\* The rosters Replicate can build: at most one entry per address.
Rosters ==
  { r \in UNION { [1..n -> [Addr : PeerAddrs, Key : Keys]] : n \in 0..Cardinality(PeerAddrs) } :
      \A i \in DOMAIN r : \A j \in DOMAIN r : r[i].Addr = r[j].Addr => i = j }

OffSender == [pc |-> "off", buf |-> 0, err |-> NoErr]
OffStream == [queue |-> <<>>, clientClosed |-> FALSE]
OffHandler == [pc |-> "off", node |-> "none", md |-> <<>>, err |-> NoErr,
               recvPc |-> "off", loadPc |-> "off", ctxDone |-> FALSE,
               got |-> <<>>, loaded |-> <<>>]
IdleIL == [pc |-> "idle", input |-> <<>>, k |-> 1, ctxDone |-> FALSE, err |-> NoErr]
OffCopier == [pc |-> "off", pos |-> 0, w |-> 1]
OffLocal == [pc |-> "off", pos |-> 0, got |-> <<>>, err |-> NoErr]
OffExt == [pc |-> "off", k |-> 1, payload |-> <<>>, sent |-> 0]

LoadInit ==
  /\ remotes \in Rosters
  /\ replicationLock = FALSE
  /\ il = IdleIL
  /\ copier = OffCopier
  /\ local = OffLocal
  /\ snd = [k \in StreamIds |-> OffSender]
  /\ st = [k \in StreamIds |-> OffStream]
  /\ lh = [k \in StreamIds |-> OffHandler]
  /\ ext = OffExt

LoadIdle ==
  /\ remotes = <<>>
  /\ replicationLock = FALSE
  /\ il = IdleIL
  /\ copier = OffCopier
  /\ local = OffLocal
  /\ snd = [k \in StreamIds |-> OffSender]
  /\ st = [k \in StreamIds |-> OffStream]
  /\ lh = [k \in StreamIds |-> OffHandler]
  /\ ext = OffExt

\* errgroup: the first non-nil error a task returns is the group's error and
\* cancels the group's context.
GroupAfter(rec, e) ==
  IF e = NoErr THEN rec
  ELSE [rec EXCEPT !.err = IF rec.err = NoErr THEN e ELSE rec.err,
                   !.ctxDone = TRUE]

\* An ImageLoad that sets up the pipes and the copy task whatever the roster.
ImageLoadStartAlwaysPipes ==
  /\ il.pc = "idle"
  /\ ~replicationLock
  /\ \E input \in Payloads :
       il' = [il EXCEPT !.pc = "setup", !.input = input]
  /\ replicationLock' = TRUE
  /\ UNCHANGED <<remotes, copier, local, snd, st, lh, ext, notLoad>>

\* ImageLoad is called with an input stream and takes the replication lock.
\* With an empty roster the input itself is the local input, the lock is
\* released and the local load is started.
ImageLoadStart ==
  /\ il.pc = "idle"
  /\ ~replicationLock
  /\ \E input \in Payloads :
       IF Len(remotes) > 0
         THEN /\ il' = [il EXCEPT !.pc = "setup", !.input = input]
              /\ replicationLock' = TRUE
              /\ UNCHANGED local
         ELSE /\ il' = [il EXCEPT !.pc = "wait", !.input = input]
              /\ replicationLock' = FALSE
              /\ local' = [local EXCEPT !.pc = "read"]
  /\ UNCHANGED <<remotes, copier, snd, st, lh, ext, notLoad>>

\* One turn of the loop over s.remotes: dial the peer, open its Load stream
\* with the roster's key in the metadata, start the sender task.  A failed
\* dial or a failed stream set-up returns from ImageLoad at once.
ImageLoadConnect ==
  /\ il.pc = "setup"
  /\ il.k <= Len(remotes)
  /\ \/ /\ il' = [il EXCEPT !.k = @ + 1]
        /\ snd' = [snd EXCEPT ![il.k] = [OffSender EXCEPT !.pc = "read"]]
        /\ lh' = [lh EXCEPT ![il.k] = [OffHandler EXCEPT !.pc = "check",
                                          !.node = remotes[il.k].Addr,
                                          !.md = <<remotes[il.k].Key>>]]
     \/ /\ \E e \in {"failed to connect to remote builder",
                     "failed to set up Load client to builder"} :
             il' = [il EXCEPT !.pc = "done", !.err = e]
        /\ UNCHANGED <<snd, lh>>
  /\ UNCHANGED <<remotes, replicationLock, copier, local, st, ext, notLoad>>

\* After the loop: the copy task is started, the lock is released, the local
\* load is started.
ImageLoadFanOut ==
  /\ il.pc = "setup"
  /\ il.k > Len(remotes)
  /\ il' = [il EXCEPT !.pc = "wait"]
  /\ copier' = [copier EXCEPT !.pc = "copy"]
  /\ local' = [local EXCEPT !.pc = "read"]
  /\ replicationLock' = FALSE
  /\ UNCHANGED <<remotes, snd, st, lh, ext, notLoad>>

\* The chunk io.Copy is writing.
CopierChunk == il.input[copier.pos + 1]

\* The position after writer w of the MultiWriter has taken the chunk: the
\* next writer, or the first writer for the next chunk.
CopierAdvance ==
  IF copier.w = Len(remotes) + 1
    THEN [copier EXCEPT !.pos = @ + 1, !.w = 1]
    ELSE [copier EXCEPT !.w = @ + 1]

\* MultiWriter writes the chunk to the pipe of the local load, which reads it.
CopierWriteLocal ==
  /\ copier.pc = "copy"
  /\ copier.w = 1
  /\ copier.pos < Len(il.input)
  /\ local.pc = "read"
  /\ local' = [local EXCEPT !.got = Append(@, CopierChunk)]
  /\ copier' = CopierAdvance
  /\ UNCHANGED <<remotes, replicationLock, il, snd, st, lh, ext, notLoad>>

\* MultiWriter writes the chunk to the pipe of sender k, whose pr.Read takes it.
CopierWriteSender(k) ==
  /\ copier.pc = "copy"
  /\ copier.w = k + 1
  /\ snd[k].pc = "read"
  /\ snd' = [snd EXCEPT ![k].pc = "send", ![k].buf = CopierChunk]
  /\ copier' = CopierAdvance
  /\ UNCHANGED <<remotes, replicationLock, il, local, st, lh, ext, notLoad>>

\* The input ends (io.Copy returns nil) or fails (io.Copy returns the error);
\* all pipe writers are closed and the task returns.
CopierEnd ==
  /\ copier.pc = "copy"
  /\ copier.w = 1
  /\ \E e \in IF copier.pos = Len(il.input) THEN {NoErr} ELSE {"input read error"} :
       il' = GroupAfter(il, e)
  /\ copier' = [copier EXCEPT !.pc = "done"]
  /\ UNCHANGED <<remotes, replicationLock, local, snd, st, lh, ext, notLoad>>

\* With an empty roster the local load reads the input itself.
LocalReadDirect ==
  /\ local.pc = "read"
  /\ copier.pc = "off"
  /\ local.pos < Len(il.input)
  /\ local' = [local EXCEPT !.pos = @ + 1, !.got = Append(@, il.input[local.pos + 1])]
  /\ UNCHANGED <<remotes, replicationLock, il, copier, snd, st, lh, ext, notLoad>>

\* The local input has ended.
LocalInputEOF ==
  IF copier.pc = "off" THEN local.pos = Len(il.input) ELSE copier.pc = "done"

\* containerdLoad / dockerdLoad return: nil or the runtime's error once the
\* input has ended, an error at any earlier point.
LocalLoadReturn ==
  /\ local.pc = "read"
  /\ \E e \in IF LocalInputEOF THEN {NoErr, "local load error"} ELSE {"local load error"} :
       /\ il' = GroupAfter(il, e)
       /\ local' = [local EXCEPT !.pc = "done", !.err = e]
  /\ UNCHANGED <<remotes, replicationLock, copier, snd, st, lh, ext, notLoad>>

\* The sender leaves its loop: it remembers the error that ended the loop and
\* half-closes the stream (the CloseSend of CloseAndRecv).
SenderBreak(k, e) ==
  /\ snd' = [snd EXCEPT ![k].pc = "closewait", ![k].buf = 0, ![k].err = e]
  /\ st' = [st EXCEPT ![k].clientClosed = TRUE]

\* The top of the sender's loop: return nil when the group's context is done,
\* else block in pr.Read.
SenderLoopTop(k) ==
  IF il.ctxDone
    THEN [snd[k] EXCEPT !.pc = "done", !.buf = 0]
    ELSE [snd[k] EXCEPT !.pc = "read", !.buf = 0]

\* loadClient.Send of the chunk read: the message is queued on the stream;
\* or the stream has ended on the peer's side and Send returns io.EOF; or
\* Send fails on the client's side with another error.
SenderSend(k) ==
  /\ snd[k].pc = "send"
  /\ \/ /\ lh[k].pc # "done"
        /\ Len(st[k].queue) < MaxInFlight
        /\ st' = [st EXCEPT ![k].queue = Append(@, snd[k].buf)]
        /\ snd' = [snd EXCEPT ![k] = SenderLoopTop(k)]
     \/ /\ lh[k].pc = "done"
        /\ SenderBreak(k, "EOF")
     \/ SenderBreak(k, "send error")
  /\ UNCHANGED <<remotes, replicationLock, il, copier, local, lh, ext, notLoad>>

\* pr.Read returns io.EOF: the copy task has closed the pipe writers.
SenderReadEOF(k) ==
  /\ snd[k].pc = "read"
  /\ copier.pc = "done"
  /\ SenderBreak(k, "EOF")
  /\ UNCHANGED <<remotes, replicationLock, il, copier, local, lh, ext, notLoad>>

\* What the sender task returns after CloseAndRecv, whose own error is only
\* logged: nil when the loop ended with io.EOF, the wrapped error otherwise.
SenderResult(err) ==
  IF err = "EOF" THEN NoErr
  ELSE IF err # NoErr THEN "failed to transfer image"
  ELSE NoErr

\* CloseAndRecv returns: the peer's handler has returned, or the context of
\* the stream is done.
SenderClosed(k) ==
  /\ snd[k].pc = "closewait"
  /\ lh[k].pc = "done" \/ il.ctxDone
  /\ il' = GroupAfter(il, SenderResult(snd[k].err))
  /\ snd' = [snd EXCEPT ![k].pc = "done"]
  /\ UNCHANGED <<remotes, replicationLock, copier, local, st, lh, ext, notLoad>>

\* g.Wait() returns once every task has returned; ImageLoad returns the
\* group's error.  Wait cancels the group's context.
ImageLoadReturn ==
  /\ il.pc = "wait"
  /\ copier.pc \in {"off", "done"}
  /\ local.pc = "done"
  /\ \A k \in StreamIds : snd[k].pc \in {"off", "done"}
  /\ il' = [il EXCEPT !.pc = "done", !.ctxDone = TRUE]
  /\ UNCHANGED <<remotes, replicationLock, copier, local, snd, st, lh, ext, notLoad>>

(***************************************************************************)
(* server.Load                                                             *)
(***************************************************************************)
\* Load with the length check alone: any single value passes.
LoadKeyErrorAnyValue(keys, key) ==
  IF Len(keys) # 1 THEN "valid key must be specified in request metadata"
  ELSE NoErr

\* The two checks of Load on the values of the metadata header "key".
LoadKeyError(keys, key) ==
  IF Len(keys) # 1 THEN "valid key must be specified in request metadata"
  ELSE IF keys[1] # key THEN "invalid key sent from remote"
  ELSE NoErr

\* Load checks the key; a good request starts the receive task and the load
\* into the node's runtime.
LoadEnter(k) ==
  /\ lh[k].pc = "check"
  /\ LET e == LoadKeyError(lh[k].md, listenKey(lh[k].node))
     IN lh' = [lh EXCEPT ![k] =
                 IF e = NoErr
                   THEN [lh[k] EXCEPT !.pc = "run", !.recvPc = "recv", !.loadPc = "read"]
                   ELSE [lh[k] EXCEPT !.pc = "done", !.err = e]]
  /\ UNCHANGED <<remotes, replicationLock, il, copier, local, snd, st, ext, notLoad>>

\* srv.Recv returns a message and pw.Write hands it to the runtime load; when
\* the runtime load has returned, nothing reads the pipe and the write blocks
\* for good.
LoadRecv(k) ==
  /\ lh[k].pc = "run"
  /\ lh[k].recvPc = "recv"
  /\ st[k].queue # <<>>
  /\ st' = [st EXCEPT ![k].queue = Tail(@)]
  /\ lh' = [lh EXCEPT ![k].got = Append(@, Head(st[k].queue)),
                      ![k].loaded = IF lh[k].loadPc = "read"
                                      THEN Append(@, Head(st[k].queue)) ELSE @,
                      ![k].recvPc = IF lh[k].loadPc = "read" THEN "recv" ELSE "stuck"]
  /\ UNCHANGED <<remotes, replicationLock, il, copier, local, snd, ext, notLoad>>

\* The stream is aborted on the client's side when the context it was opened
\* with is done.
StreamAborted(k) ==
  \/ il.ctxDone /\ snd[k].pc # "off"
  \/ ext.pc = "aborted" /\ ext.k = k

\* The receive task returns: nil on io.EOF (the pipe is closed) and when it
\* finds the handler's context done, the wrapped error when Recv fails.
LoadRecvReturn(k) ==
  /\ lh[k].pc = "run"
  /\ lh[k].recvPc = "recv"
  /\ \/ /\ st[k].queue = <<>> /\ st[k].clientClosed
        /\ lh' = [lh EXCEPT ![k] = [GroupAfter(lh[k], NoErr) EXCEPT !.recvPc = "eof"]]
     \/ /\ lh[k].ctxDone
        /\ lh' = [lh EXCEPT ![k] = [GroupAfter(lh[k], NoErr) EXCEPT !.recvPc = "done"]]
     \/ /\ StreamAborted(k)
        /\ lh' = [lh EXCEPT ![k] =
                    [GroupAfter(lh[k], "failed to read from remote sender")
                       EXCEPT !.recvPc = "failed"]]
  /\ UNCHANGED <<remotes, replicationLock, il, copier, local, snd, st, ext, notLoad>>

\* The load into the peer's runtime returns: nil or the runtime's error once
\* its input has ended with io.EOF, an error at any earlier point.
LoadRuntimeReturn(k) ==
  /\ lh[k].pc = "run"
  /\ lh[k].loadPc = "read"
  /\ \E e \in IF lh[k].recvPc = "eof" THEN {NoErr, "local load error"}
                                       ELSE {"local load error"} :
       lh' = [lh EXCEPT ![k] = [GroupAfter(lh[k], e) EXCEPT !.loadPc = "done"]]
  /\ UNCHANGED <<remotes, replicationLock, il, copier, local, snd, st, ext, notLoad>>

\* g.Wait() returns and Load returns the group's error, which ends the stream.
LoadReturn(k) ==
  /\ lh[k].pc = "run"
  /\ lh[k].recvPc \in {"eof", "done", "failed"}
  /\ lh[k].loadPc = "done"
  /\ lh' = [lh EXCEPT ![k].pc = "done"]
  /\ UNCHANGED <<remotes, replicationLock, il, copier, local, snd, st, ext, notLoad>>

\* A caller other than ImageLoad opens a Load stream to a node, with any
\* values of the metadata header "key".
CallerOpen ==
  /\ ext.pc = "off"
  /\ \E node \in PeerAddrs, md \in HeaderLists(Keys), payload \in Payloads :
       /\ ext' = [ext EXCEPT !.pc = "open", !.payload = payload]
       /\ lh' = [lh EXCEPT ![ext.k] = [OffHandler EXCEPT !.pc = "check",
                                          !.node = node, !.md = md]]
  /\ UNCHANGED <<remotes, replicationLock, il, copier, local, snd, st, notLoad>>

\* The caller sends the next chunk of its payload.
CallerSend ==
  /\ ext.pc = "open"
  /\ ext.sent < Len(ext.payload)
  /\ lh[ext.k].pc # "done"
  /\ Len(st[ext.k].queue) < MaxInFlight
  /\ st' = [st EXCEPT ![ext.k].queue = Append(@, ext.payload[ext.sent + 1])]
  /\ ext' = [ext EXCEPT !.sent = @ + 1]
  /\ UNCHANGED <<remotes, replicationLock, il, copier, local, snd, lh, notLoad>>

\* The caller half-closes the stream after its payload, or aborts it.
CallerEnd ==
  /\ ext.pc = "open"
  /\ \/ /\ ext.sent = Len(ext.payload)
        /\ ext' = [ext EXCEPT !.pc = "closed"]
        /\ st' = [st EXCEPT ![ext.k].clientClosed = TRUE]
     \/ /\ ext' = [ext EXCEPT !.pc = "aborted"]
        /\ UNCHANGED st
  /\ UNCHANGED <<remotes, replicationLock, il, copier, local, snd, lh, notLoad>>

FanoutNext ==
  \/ ImageLoadStart
  \/ ImageLoadConnect
  \/ ImageLoadFanOut
  \/ CopierWriteLocal
  \/ \E k \in StreamIds : CopierWriteSender(k)
  \/ CopierEnd
  \/ LocalReadDirect
  \/ LocalLoadReturn
  \/ \E k \in StreamIds : SenderSend(k)
  \/ \E k \in StreamIds : SenderReadEOF(k)
  \/ \E k \in StreamIds : SenderClosed(k)
  \/ ImageLoadReturn
  \/ \E k \in StreamIds : LoadEnter(k)
  \/ \E k \in StreamIds : LoadRecv(k)
  \/ \E k \in StreamIds : LoadRecvReturn(k)
  \/ \E k \in StreamIds : LoadRuntimeReturn(k)
  \/ \E k \in StreamIds : LoadReturn(k)

(***************************************************************************)
(* Kubernetes driver: Bootstrap = wait = createConfigMap; createBuilder    *)
(***************************************************************************)
Booters == {"cli1", "cli2"}
BuilderName == "buildkit"
Runtimes == {"docker", "containerd"}
DefaultContainerRuntime == "docker"
minReplicas == 1

\* Errors are the chain of their messages, outermost first; nil is empty.
Nil == <<>>
ErrCanceled == <<"context canceled">>
ErrNotFound == <<"not found">>
ErrAlreadyExists == <<"already exists">>
ErrConflict == <<"the object has been modified">>
MsgTimedOut == "timed out waiting for builder to become ready"

\* errors.Wrap returns nil for a nil error.
Wrap(err, msg) == IF err = Nil THEN Nil ELSE <<msg>> \o err

\* The message of the error contains msg.
Contains(err, msg) == \E i \in DOMAIN err : err[i] = msg

\* The driver options of a CLI: the runtime option ("" when not given) and
\* whether a config file is given.
DriverOpts == [runtime : {""} \cup Runtimes, config : BOOLEAN]

\* The ConfigMap payload initDriverFromConfig builds.
ConfigData(opts, runtime) == IF opts.config THEN <<"file">> ELSE <<"template", runtime>>

NoSnapshot == [configMaps |-> {}, deployments |-> {}, ready |-> FALSE]

IdleBoot == [pc |-> "idle", opts |-> [runtime |-> "", config |-> FALSE],
             runtime |-> DefaultContainerRuntime, userSpecifiedRuntime |-> FALSE,
             resourceVersion |-> 0, err |-> Nil, depl |-> 0, reportedEvents |-> {},
             replica |-> {}, replicas |-> minReplicas, cmSeen |-> {},
             ctxDone |-> FALSE, result |-> Nil, via |-> "none",
             after |-> {}, atReturn |-> NoSnapshot]

BootIdle ==
  /\ nodeRuntime = DefaultContainerRuntime
  /\ configMaps = {}
  /\ deployments = {}
  /\ pods = {}
  /\ boot = [p \in Booters |-> IdleBoot]

BootInit ==
  /\ nodeRuntime \in Runtimes
  /\ configMaps = {}
  /\ deployments = {}
  /\ pods = {}
  /\ boot = [p \in Booters |-> IdleBoot]

\* The objects carrying the builder's name.
NamedConfigMaps == { c \in configMaps : c.name = BuilderName }
NamedDeployments == { d \in deployments : d.name = BuilderName }

\* What the namespace holds: names with payload or spec, and readiness.
Snapshot ==
  [configMaps |-> { [name |-> c.name, data |-> c.data] : c \in configMaps },
   deployments |-> { [name |-> d.name, runtime |-> d.runtime] : d \in deployments },
   ready |-> \E d \in NamedDeployments : d.readyReplicas >= minReplicas]

\* Bootstrap returns e from the place named by via.
Return(p, e, via) ==
  [boot[p] EXCEPT !.pc = "done", !.result = e, !.via = via, !.atReturn = Snapshot]

\* A CLI builds its driver from its options (initDriverFromConfig) and calls
\* Bootstrap.
BootStart(p) ==
  /\ boot[p].pc = "idle"
  /\ \E opts \in DriverOpts :
       boot' = [boot EXCEPT ![p] =
                  [IdleBoot EXCEPT !.pc = "cmTop", !.opts = opts,
                     !.runtime = IF opts.runtime = "" THEN DefaultContainerRuntime
                                                       ELSE opts.runtime,
                     !.userSpecifiedRuntime = opts.runtime # "",
                     !.err = <<"timeout before first attempt">>,
                     !.after = { q \in Booters : boot[q].pc = "done" /\ boot[q].result = Nil }]]
  /\ UNCHANGED <<nodeRuntime, configMaps, deployments, pods, notBoot>>

\* The context of a running Bootstrap is cancelled.
Cancel(p) ==
  /\ boot[p].pc \notin {"idle", "done"}
  /\ ~boot[p].ctxDone
  /\ boot' = [boot EXCEPT ![p].ctxDone = TRUE]
  /\ UNCHANGED <<nodeRuntime, configMaps, deployments, pods, notBoot>>

\* createConfigMap, top of the loop: return the latest error when the context
\* is done.
ConfigMapTop(p) ==
  /\ boot[p].pc = "cmTop"
  /\ boot' = [boot EXCEPT ![p] =
                IF boot[p].ctxDone THEN Return(p, boot[p].err, "createConfigMap")
                ELSE [boot[p] EXCEPT !.pc = "cmGet"]]
  /\ UNCHANGED <<nodeRuntime, configMaps, deployments, pods, notBoot>>

\* A driver that takes every configuration for the user's.
userSpecifiedConfigAlways(p) == TRUE

\* d.userSpecifiedConfig: the user gave a config file.
userSpecifiedConfig(p) == boot[p].opts.config

\* A ConfigMap of the builder's name made before any CLI ran.
PreExistingConfigMap == [name |-> BuilderName, data |-> <<"pre-existing">>]

\* configMapClient.Get: not found leads to Create, found with a user's
\* config to Update, found otherwise ends the loop with nil and createBuilder
\* starts with its own nil error.  A call under a done context fails.
ConfigMapGet(p) ==
  /\ boot[p].pc = "cmGet"
  /\ boot' = [boot EXCEPT ![p] =
                IF boot[p].ctxDone THEN [boot[p] EXCEPT !.pc = "cmTop", !.err = ErrCanceled]
                ELSE IF NamedConfigMaps = {} THEN [boot[p] EXCEPT !.pc = "cmCreate", !.err = ErrNotFound]
                ELSE IF userSpecifiedConfig(p)
                  THEN [boot[p] EXCEPT !.pc = "cmUpdate", !.err = Nil,
                                       !.cmSeen = NamedConfigMaps]
                ELSE [boot[p] EXCEPT !.pc = "cbTop", !.err = Nil]]
  /\ UNCHANGED <<nodeRuntime, configMaps, deployments, pods, notBoot>>

\* The driver's ConfigMap object.
DriverConfigMap(p) ==
  [name |-> BuilderName, data |-> ConfigData(boot[p].opts, boot[p].runtime)]

\* configMapClient.Create: fails when the name exists.
ConfigMapCreate(p) ==
  /\ boot[p].pc = "cmCreate"
  /\ IF boot[p].ctxDone \/ NamedConfigMaps # {}
       THEN /\ boot' = [boot EXCEPT ![p].pc = "cmTop",
                                    ![p].err = IF boot[p].ctxDone THEN ErrCanceled
                                                                  ELSE ErrAlreadyExists]
            /\ UNCHANGED configMaps
       ELSE /\ configMaps' = configMaps \cup {DriverConfigMap(p)}
            /\ boot' = [boot EXCEPT ![p].pc = "cbTop", ![p].err = Nil]
  /\ UNCHANGED <<nodeRuntime, deployments, pods, notBoot>>

\* configMapClient.Update of the driver's own object, which carries no
\* resource version (the object Get returned is dropped): replaces the object
\* of that name whatever it holds by now, fails when there is none.
ConfigMapUpdate(p) ==
  /\ boot[p].pc = "cmUpdate"
  /\ IF boot[p].ctxDone \/ NamedConfigMaps = {}
       THEN /\ boot' = [boot EXCEPT ![p].pc = "cmTop", ![p].cmSeen = {},
                                    ![p].err = IF boot[p].ctxDone THEN ErrCanceled
                                                                  ELSE ErrNotFound]
            /\ UNCHANGED configMaps
       ELSE /\ configMaps' = (configMaps \ NamedConfigMaps) \cup {DriverConfigMap(p)}
            /\ boot' = [boot EXCEPT ![p].pc = "cbTop", ![p].err = Nil, ![p].cmSeen = {}]
  /\ UNCHANGED <<nodeRuntime, deployments, pods, notBoot>>

\* createBuilder, top of the loop: when the context is done, return the
\* latest error wrapped.
BuilderTop(p) ==
  /\ boot[p].pc = "cbTop"
  /\ boot' = [boot EXCEPT ![p] =
                IF boot[p].ctxDone
                  THEN Return(p, Wrap(boot[p].err, MsgTimedOut), "createBuilder")
                  ELSE [boot[p] EXCEPT !.pc = "cbGet"]]
  /\ UNCHANGED <<nodeRuntime, configMaps, deployments, pods, notBoot>>

\* deploymentClient.Get: not found leads to Create; a deployment with enough
\* ready replicas ends Bootstrap with nil; otherwise its pods are inspected.
BuilderGet(p) ==
  /\ boot[p].pc = "cbGet"
  /\ boot' = [boot EXCEPT ![p] =
       IF boot[p].ctxDone THEN [boot[p] EXCEPT !.pc = "cbTop", !.err = ErrCanceled]
       ELSE IF NamedDeployments = {} THEN [boot[p] EXCEPT !.pc = "cbCreate", !.err = ErrNotFound]
       ELSE LET d == CHOOSE d \in NamedDeployments : TRUE
            IN IF d.readyReplicas >= boot[p].replicas
                 THEN [Return(p, Nil, "ready") EXCEPT !.err = Nil]
                 ELSE [boot[p] EXCEPT !.pc = "cbInspect", !.err = Nil,
                                      !.depl = d.resourceVersion]]
  /\ UNCHANGED <<nodeRuntime, configMaps, deployments, pods, notBoot>>

\* deploymentClient.Create of the driver's deployment: fails when the name
\* exists, and the loop starts over.
BuilderCreate(p) ==
  /\ boot[p].pc = "cbCreate"
  /\ IF boot[p].ctxDone \/ NamedDeployments # {}
       THEN /\ boot' = [boot EXCEPT ![p].pc = "cbTop",
                                    ![p].err = IF boot[p].ctxDone THEN ErrCanceled
                                                                  ELSE ErrAlreadyExists]
            /\ UNCHANGED deployments
       ELSE /\ deployments' = deployments \cup
                 {[name |-> BuilderName, resourceVersion |-> 1,
                   runtime |-> boot[p].runtime, replicas |-> boot[p].replicas,
                   readyReplicas |-> 0]}
            /\ boot' = [boot EXCEPT ![p].pc = "cbInspect", ![p].err = Nil, ![p].depl = 1]
  /\ UNCHANGED <<nodeRuntime, configMaps, pods, notBoot>>

\* The messages of the events of a pod, in parts.
MsgNotSocket == <<"MountVolume.SetUp failed", "is not a socket file">>
PullMessages ==
  { <<"Failed to pull image", "rpc error">>,
    <<"Error: ErrImagePull">>,
    <<"Error: ImagePullBackOff">> }

\* The Warning events of the builder's pods.
PodEvents ==
  { [pod |-> x.id, reason |-> "FailedMount", message |-> MsgNotSocket] :
      x \in { y \in pods : y.failedMount } }
  \cup
  { [pod |-> x.id, reason |-> "Failed", message |-> x.pullFailed] :
      x \in { y \in pods : y.pullFailed # <<>> } }

\* logEvents skips what this invocation has reported already.
NewEvents(p) == PodEvents \ boot[p].reportedEvents

\* logEvents fails fast for these events.
PullFailure(ev) ==
  /\ ev.reason = "Failed"
  /\ \/ Contains(ev.message, "Failed to pull image")
     \/ Contains(ev.message, "Error: ErrImagePull")

\* The callback of the pod events acts on these events.
NotSocketFile(ev) ==
  ev.reason = "FailedMount" /\ Contains(ev.message, "is not a socket file")

\* The pods whose FailedMount event "is not a socket file" this invocation
\* has not reported yet.
NewFailedMounts(p) ==
  { x \in pods : \E ev \in NewEvents(p) : ev.pod = x.id /\ NotSocketFile(ev) }

\* The other supported runtime.
Flip(runtime) == IF runtime = "docker" THEN "containerd" ELSE "docker"

MsgWrongRuntime == "pod failed to initialize - did you pick the correct runtime?"

\* A driver that treats no runtime as pinned.
RuntimePinnedNever(p) == FALSE

\* d.userSpecifiedRuntime: the runtime came from the options, or from a flip.
RuntimePinned(p) == boot[p].userSpecifiedRuntime

\* The pods of the replica set of the pod named id, as podList holds them.
Siblings(id) ==
  { y.id : y \in { z \in pods : \E x \in pods : x.id = id /\ z.runtime = x.runtime } }

\* No event.
NoEvent == [pod |-> 0, reason |-> "none", message |-> <<>>]

\* The events one pass of logEvents can stop at or act on first: the new pull
\* failures and the new mount failures; NoEvent when there is none or the
\* lists fail under a done context.
FirstEvents(p) ==
  LET acting == { ev \in NewEvents(p) : PullFailure(ev) \/ NotSocketFile(ev) }
  IN IF boot[p].ctxDone \/ acting = {} THEN {NoEvent} ELSE acting

\* The replica sets, pods and events are listed and logged.  A new pull
\* failure ends Bootstrap with the event's message.  A new FailedMount event
\* ends Bootstrap with an error when the runtime is pinned; otherwise the
\* driver flips away from the default runtime, re-runs initDriverFromConfig
\* (which pins the runtime) and takes the resource version of the deployment
\* it read.  Nothing to act on: sleep and loop.
Inspected(p, ev) ==
  IF boot[p].ctxDone
    THEN [boot[p] EXCEPT !.pc = "cbTop",
            !.err = Wrap(ErrCanceled, "failed to retrieve replicaset for deployment")]
  ELSE IF ev = NoEvent
    THEN [boot[p] EXCEPT !.pc = "cbTop", !.reportedEvents = @ \cup NewEvents(p)]
  ELSE IF PullFailure(ev)
    THEN [Return(p, ev.message, "logEvents") EXCEPT !.reportedEvents = @ \cup {ev}]
  ELSE IF RuntimePinned(p)
    THEN [Return(p, <<MsgWrongRuntime>>, "logEvents")
            EXCEPT !.reportedEvents = @ \cup {ev}]
  ELSE [boot[p] EXCEPT !.pc = "cbUpdate",
                       !.reportedEvents = @ \cup {ev},
                       !.replica = Siblings(ev.pod),
                       !.runtime = Flip(DefaultContainerRuntime),
                       !.userSpecifiedRuntime = TRUE,
                       !.resourceVersion = boot[p].depl]

BuilderInspect(p) ==
  /\ boot[p].pc = "cbInspect"
  /\ \E ev \in FirstEvents(p) : boot' = [boot EXCEPT ![p] = Inspected(p, ev)]
  /\ UNCHANGED <<nodeRuntime, configMaps, deployments, pods, notBoot>>

\* deploymentClient.Update with the resource version set: the API server
\* rejects it when the object has another version by now; the error ends
\* Bootstrap.
BuilderUpdate(p) ==
  /\ boot[p].pc = "cbUpdate"
  /\ LET msg == "error while calling deploymentClient.Update"
         cur == { d \in NamedDeployments : d.resourceVersion = boot[p].resourceVersion }
     IN IF boot[p].ctxDone \/ cur = {}
          THEN /\ boot' = [boot EXCEPT ![p] =
                    Return(p, Wrap(IF boot[p].ctxDone THEN ErrCanceled
                                   ELSE IF NamedDeployments = {} THEN ErrNotFound
                                   ELSE ErrConflict, msg), "logEvents")]
               /\ UNCHANGED deployments
          ELSE /\ deployments' = (deployments \ cur) \cup
                    { [d EXCEPT !.runtime = boot[p].runtime,
                                !.resourceVersion = @ + 1] : d \in cur }
               /\ boot' = [boot EXCEPT ![p].pc = "cbCleanup"]
  /\ UNCHANGED <<nodeRuntime, configMaps, pods, notBoot>>

\* The events of the other pods of the replica set that the rest of the pass
\* over podList can stop at: those this invocation has not reported.
RestOfPass(p) ==
  { ev \in NewEvents(p) :
      /\ ev.pod \in boot[p].replica
      /\ PullFailure(ev) \/ NotSocketFile(ev) }

\* The replica set of the failed pod and its pods are deleted (failures only
\* logged) and the callback returns nil.  The loop over podList goes on with
\* the pods that follow the failed one in the list, with the driver as the
\* flip left it: an event of theirs ends Bootstrap as in any pass.  With no
\* such event: sleep and loop.
BuilderCleanup(p) ==
  /\ boot[p].pc = "cbCleanup"
  /\ pods' = IF boot[p].ctxDone THEN pods
             ELSE { x \in pods : x.id \notin boot[p].replica }
  /\ \/ boot' = [boot EXCEPT ![p].pc = "cbTop"]
     \/ /\ ~boot[p].ctxDone
        /\ \E ev \in RestOfPass(p) :
             boot' = [boot EXCEPT ![p] =
               [Return(p, IF PullFailure(ev) THEN ev.message ELSE <<MsgWrongRuntime>>,
                       "logEvents")
                  EXCEPT !.reportedEvents = @ \cup {ev}]]
  /\ UNCHANGED <<nodeRuntime, configMaps, deployments, notBoot>>

\* The pods of the replica set of the given runtime.
PodsOf(runtime) == { x \in pods : x.runtime = runtime }

\* The cluster's controllers create the pods of the deployment's current
\* replica set, each under a name of its own.
ControllerSync ==
  /\ \E d \in NamedDeployments :
       /\ Cardinality(PodsOf(d.runtime)) < d.replicas
       /\ pods' = pods \cup {[id |-> d.resourceVersion + 100 * Cardinality(PodsOf(d.runtime)),
                              runtime |-> d.runtime, ready |-> FALSE, failedMount |-> FALSE,
                              pullFailed |-> <<>>]}
  /\ UNCHANGED <<nodeRuntime, configMaps, deployments, boot, notBoot>>

\* The kubelet starts a pod: it becomes ready, which the deployment's status
\* records, when its runtime's socket exists on the node; otherwise the mount
\* fails with the event "... is not a socket file".
KubeletStart ==
  /\ \E x \in pods :
       /\ ~x.ready /\ ~x.failedMount
       /\ IF x.runtime = nodeRuntime
            THEN /\ pods' = (pods \ {x}) \cup {[x EXCEPT !.ready = TRUE]}
                 /\ deployments' =
                      { IF d.runtime = x.runtime
                          THEN [d EXCEPT !.readyReplicas =
                                            Cardinality({ y \in PodsOf(x.runtime) : y.ready }) + 1,
                                         !.resourceVersion = @ + 1]
                          ELSE d : d \in deployments }
            ELSE /\ pods' = (pods \ {x}) \cup {[x EXCEPT !.failedMount = TRUE]}
                 /\ UNCHANGED deployments
  /\ UNCHANGED <<nodeRuntime, configMaps, boot, notBoot>>

(***************************************************************************)
(* Driver.Rm                                                               *)
(***************************************************************************)
MsgDeleteDeployment == "error while calling deploymentClient.Delete"
MsgDeleteConfigMap == "error while calling configMapClient.Delete"
ErrUnavailable == <<"the server is currently unable to handle the request">>

\* What Rm's calls leave alone, besides the objects of the namespace.
notRm == <<nodeRuntime, boot, proxyVars, loadVars, listenVars, outerVars, chooseVars,
           cliVars, mdVars, optVars>>

\* The errors a Delete of an object of the builder's name may return: not
\* found when the namespace holds none, a failure of the API server otherwise.
DeleteErrors(named) == IF named = {} THEN {ErrNotFound} ELSE {ErrUnavailable}

\* No Bootstrap is between its start and its return.
NoBootstrapInFlight == \A p \in Booters : boot[p].pc \in {"idle", "done"}

\* The Bootstraps that have returned.
ReturnedBootstraps == { p \in Booters : boot[p].pc = "done" }

\* The rm command is run, at a time when no create command is running; it
\* calls Rm when the driver's List shows a deployment of the builder's name.
RmCall ==
  /\ rm.pc = "idle"
  /\ NoBootstrapInFlight
  /\ NamedDeployments # {}
  /\ rm' = [rm EXCEPT !.pc = "deleteDeployment", !.returned = ReturnedBootstraps]
  /\ UNCHANGED <<configMaps, deployments, pods, notRm>>

\* An Rm that requests the two deletions in one step and reports nil
\* whatever their results.
RmDeleteBothUnchecked ==
  /\ rm.pc = "deleteDeployment"
  /\ deployments' = deployments \ NamedDeployments
  /\ configMaps' = configMaps \ NamedConfigMaps
  /\ pods' = {}
  /\ rm' = [rm EXCEPT !.pc = "done", !.err = Nil,
                      !.alone = NoBootstrapInFlight /\ ReturnedBootstraps = rm.returned]
  /\ UNCHANGED notRm

\* deploymentClient.Delete: the deployment of the builder's name is removed,
\* and its replica sets and pods with it; an error is wrapped and returned.
RmDeleteDeployment ==
  /\ rm.pc = "deleteDeployment"
  /\ \/ /\ NamedDeployments # {}
        /\ deployments' = deployments \ NamedDeployments
        /\ pods' = {}
        /\ rm' = [rm EXCEPT !.pc = "deleteConfigMap"]
     \/ /\ \E e \in DeleteErrors(NamedDeployments) :
             rm' = [rm EXCEPT !.pc = "done", !.err = Wrap(e, MsgDeleteDeployment)]
        /\ UNCHANGED <<deployments, pods>>
  /\ UNCHANGED <<configMaps, notRm>>

\* configMapClient.Delete: the config map of the builder's name is removed
\* and Rm returns nil; an error is wrapped and returned.  The call is alone
\* when no Bootstrap has been at work since the command was run.
RmDeleteConfigMap ==
  /\ rm.pc = "deleteConfigMap"
  /\ \/ /\ NamedConfigMaps # {}
        /\ configMaps' = configMaps \ NamedConfigMaps
        /\ rm' = [rm EXCEPT !.pc = "done", !.err = Nil,
                            !.alone = NoBootstrapInFlight /\ ReturnedBootstraps = rm.returned]
     \/ /\ \E e \in DeleteErrors(NamedConfigMaps) :
             rm' = [rm EXCEPT !.pc = "done", !.err = Wrap(e, MsgDeleteConfigMap)]
        /\ UNCHANGED configMaps
  /\ UNCHANGED <<deployments, pods, notRm>>

BootNext ==
  \/ \E p \in Booters : BootStart(p)
  \/ \E p \in Booters : Cancel(p)
  \/ \E p \in Booters : ConfigMapTop(p)
  \/ \E p \in Booters : ConfigMapGet(p)
  \/ \E p \in Booters : ConfigMapCreate(p)
  \/ \E p \in Booters : ConfigMapUpdate(p)
  \/ \E p \in Booters : BuilderTop(p)
  \/ \E p \in Booters : BuilderGet(p)
  \/ \E p \in Booters : BuilderCreate(p)
  \/ \E p \in Booters : BuilderInspect(p)
  \/ \E p \in Booters : BuilderUpdate(p)
  \/ \E p \in Booters : BuilderCleanup(p)
  \/ ControllerSync
  \/ KubeletStart

(***************************************************************************)
(* server.Listen, server.StopListen, server.Replicate                      *)
(***************************************************************************)
NoCall == [op |-> "none", err |-> NoErr, before |-> 0, key |-> "none", nodes |-> <<>>]

\* The proxy's own address on the peer network.
OwnAddr == "p1"

ListenIdle ==
  /\ listenRefCount = 0
  /\ listener = "closed"
  /\ grpcServer = "none"
  /\ serveTask = FALSE
  /\ call = NoCall

\* Listen, under the replication lock: at count zero bind the port, make a
\* new gRPC server and start the task that serves it; count the request and
\* answer with the listen key.  Binding fails while the port is still bound.
Listen ==
  /\ ~replicationLock
  /\ listenRefCount < MaxListen
  /\ IF listenRefCount = 0 /\ listener = "open"
       THEN /\ call' = [op |-> "Listen", err |-> "failed to start gRPC listener",
                        before |-> listenRefCount, key |-> "none", nodes |-> <<>>]
            /\ UNCHANGED <<listenRefCount, listener, grpcServer, serveTask>>
       ELSE /\ listenRefCount' = listenRefCount + 1
            /\ call' = [op |-> "Listen", err |-> NoErr, before |-> listenRefCount,
                        key |-> listenKey(OwnAddr), nodes |-> <<>>]
            /\ IF listenRefCount = 0
                 THEN /\ listener' = "open"
                      /\ grpcServer' = "new"
                      /\ serveTask' = TRUE
                 ELSE UNCHANGED <<listener, grpcServer, serveTask>>
  /\ UNCHANGED <<remotes, notListen>>

\* The task started by Listen calls grpcServer.Serve(lis): the server takes
\* the listener and serves; a server stopped by then closes the listener and
\* Serve returns an error, which is logged.
Serve ==
  /\ serveTask
  /\ serveTask' = FALSE
  /\ IF grpcServer = "stopped"
       THEN listener' = "closed" /\ UNCHANGED grpcServer
       ELSE grpcServer' = "serving" /\ UNCHANGED listener
  /\ UNCHANGED <<listenRefCount, call, remotes, notListen>>

\* A StopListen that answers at count zero without an error.
StopListenUnchecked ==
  /\ ~replicationLock
  /\ listenRefCount = 0
  /\ call' = [op |-> "StopListen", err |-> NoErr, before |-> listenRefCount,
               key |-> "none", nodes |-> <<>>]
  /\ UNCHANGED <<listenRefCount, listener, grpcServer, serveTask, remotes, notListen>>

\* StopListen, under the replication lock: an error at count zero; otherwise
\* one less, and at zero grpcServer.Stop(), which closes the listeners the
\* server has taken.
StopListen ==
  /\ ~replicationLock
  /\ IF listenRefCount = 0
       THEN /\ call' = [op |-> "StopListen",
                        err |-> "internal error - zero refcount on StopListen",
                        before |-> listenRefCount, key |-> "none", nodes |-> <<>>]
            /\ UNCHANGED <<listenRefCount, listener, grpcServer>>
       ELSE /\ listenRefCount' = listenRefCount - 1
            /\ call' = [op |-> "StopListen", err |-> NoErr,
                        before |-> listenRefCount, key |-> "none", nodes |-> <<>>]
            /\ IF listenRefCount = 1
                 THEN /\ listener' = IF grpcServer = "serving" THEN "closed" ELSE listener
                      /\ grpcServer' = "stopped"
                 ELSE UNCHANGED <<listener, grpcServer>>
  /\ UNCHANGED <<serveTask, remotes, notListen>>

\* A turn of Replicate's loop that leaves the key of a known address.
ReplicateNodeKeepKey(roster, node) ==
  IF \E i \in DOMAIN roster : roster[i].Addr = node.Addr THEN roster
  ELSE Append(roster, node)

\* One turn of Replicate's loop: the first entry of the node's address takes
\* the node's key, or the node is appended.
ReplicateNode(roster, node) ==
  IF \E i \in DOMAIN roster : roster[i].Addr = node.Addr
    THEN LET first == CHOOSE i \in DOMAIN roster :
                        /\ roster[i].Addr = node.Addr
                        /\ \A j \in DOMAIN roster : roster[j].Addr = node.Addr => i <= j
         IN IF roster[first].Key # node.Key
              THEN [roster EXCEPT ![first].Key = node.Key] ELSE roster
    ELSE Append(roster, node)

RECURSIVE ReplicateNodes(_, _)
ReplicateNodes(roster, nodes) ==
  IF nodes = <<>> THEN roster
  ELSE ReplicateNodes(ReplicateNode(roster, Head(nodes)), Tail(nodes))

\* The requests of Replicate: lists of nodes.
ReplicateRequests ==
  UNION { [1..n -> [Addr : PeerAddrs, Key : Keys]] : n \in 0..MaxNodes }

\* Replicate, under the replication lock.
Replicate ==
  /\ ~replicationLock
  /\ \E nodes \in ReplicateRequests :
       /\ remotes' = ReplicateNodes(remotes, nodes)
       /\ call' = [op |-> "Replicate", err |-> NoErr, before |-> listenRefCount,
                    key |-> "none", nodes |-> nodes]
  /\ UNCHANGED <<listenRefCount, listener, grpcServer, serveTask, notListen>>

ListenNext ==
  \/ Listen
  \/ Serve
  \/ StopListen
  \/ Replicate

ProxyNext ==
  \/ \E r \in SessRPCs : SessionEnter(r)
  \/ \E r \in SessRPCs : SessionSetup(r)
  \/ \E r \in SessRPCs : SessionFinish(r)
  \/ \E q \in Solves : SolveEnter(q)
  \/ \E q \in Solves : addLocalExporter(q)
  \/ \E q \in Solves : SolveForward(q)
  \/ \E d \in DiffCopies : DiffCopyEnter(d)
  \/ \E d \in DiffCopies : DiffCopyDial(d)
  \/ \E d \in DiffCopies : DiffCopyPump(d)
  \/ \E d \in DiffCopies : DiffCopyEOF(d)
  \/ \E d \in DiffCopies : DiffCopyAbort(d)

(***************************************************************************)
(* Claims about the session fabric                                         *)
(***************************************************************************)
\* A Session RPC is in flight from its getSession to its return.
SessionInFlight(id) ==
  \E r \in SessRPCs : rpc[r].pc \in {"setup", "running"} /\ rpc[r].sid = id

\* C1: for every session ID, the session map holds an entry for the ID if
\* and only if a Session RPC carrying the ID is in flight.
C1_EntryIffSessionInFlight ==
  \A id \in SessionIDs : (id \in DOMAIN sessions) <=> SessionInFlight(id)

\* C8: whenever a Session RPC that got past its header checks returns, on any
\* return path, the session map holds no entry for its session ID afterwards.
C8_SessionReturnDeletesEntry ==
  [][\A r \in SessRPCs :
        (rpc[r].pc \in {"setup", "running"} /\ rpc'[r].pc = "done")
          => rpc[r].sid \notin DOMAIN sessions']_vars

\* The condition C9 names, on what DiffCopy was given: the inbound metadata
\* has a key with the exporter prefix and the exporter attributes recorded
\* for the session are non-empty.
HijackCondition(d) == dc[d].mdExporter /\ dc[d].attrsSeen # {}

\* C9: the payload of a file-send DiffCopy stream goes to the image load and
\* not to the client if and only if the inbound metadata has a key with the
\* exporter prefix and the session's recorded exporter attributes are
\* non-empty; otherwise it goes to the client and not to the image load.
\* What has been passed on is always a prefix of the payload.
C9_FileSendRouting ==
  \A d \in DiffCopies :
    dc[d].pc # "idle" =>
      /\ HijackCondition(d) => (dc[d].route = "loader" /\ dc[d].toClient = <<>>)
      /\ ~HijackCondition(d) => (dc[d].route = "client" /\ dc[d].toLoader = <<>>)
      /\ dc[d].toLoader = SubSeq(dc[d].payload, 1, Len(dc[d].toLoader))
      /\ dc[d].toClient = SubSeq(dc[d].payload, 1, Len(dc[d].toClient))

\* A hijacked stream whose whole payload of MaxChunks chunks reached the
\* image load, on a session whose Solve recorded exporter attributes.
C9_Witness ==
  \E d \in DiffCopies :
    /\ dc[d].pc = "done"
    /\ dc[d].err = NoErr
    /\ HijackCondition(d)
    /\ Len(dc[d].payload) = MaxChunks
    /\ dc[d].toLoader = dc[d].payload

\* The request is one whose exporter attributes Solve is to store.
StoresAttrs(req) == req.exporter \in {"image", "docker", "oci"} /\ req.attrs # {}

\* C21: when Solve comes to forward a request to the build daemon, the
\* entry of the request's session in the session map holds the request's
\* exporter attributes if the exporter is one of image, docker, oci and the
\* attribute map is non-empty, and otherwise Solve came there without a
\* store and with the session map as it was.
C21_SolveStoresAttrsBeforeForward ==
  [][\A q \in Solves :
        (solve[q].pc # "forward" /\ solve'[q].pc = "forward") =>
          IF StoresAttrs(solve'[q])
            THEN /\ solve'[q].sid \in DOMAIN sessions'
                 /\ sessions'[solve'[q].sid].exporterAttrs = solve'[q].attrs
            ELSE /\ solve[q].pc = "idle"
                 /\ sessions' = sessions]_vars

\* ImageLoad has returned nil.
ImageLoadSucceeded == il.pc = "done" /\ il.err = NoErr

\* Solve q has stored what it stores and is in s.buildkitd.Solve with a
\* request for sessionID that declares an exporter of the runtime with
\* attributes.
SolvingWithExporter(q, sessionID) ==
  /\ solve[q].pc = "forward"
  /\ solve[q].sid = sessionID
  /\ StoresAttrs(solve[q])

PeerStreams == 1..Len(remotes)

\* C3: when ImageLoad has returned successfully, the local runtime load has
\* received exactly the input, and so has every peer's Load stream (looked at
\* once the peer's handler has returned, so that nothing is still in flight).
C3_SuccessDeliversInputEverywhere ==
  ImageLoadSucceeded =>
    /\ local.got = il.input
    /\ \A k \in PeerStreams : lh[k].pc = "done" => lh[k].got = il.input

\* C4: ImageLoad returns success only if the local load and the load of every
\* peer succeeded: a failed connection or stream, or a peer whose Load
\* returned an error, makes ImageLoad return an error.
C4_SuccessOnlyIfEveryLoadSucceeded ==
  ImageLoadSucceeded =>
    /\ local.pc = "done"
    /\ il.k > Len(remotes)
    /\ \A k \in PeerStreams : lh[k].pc = "done" => lh[k].err = NoErr

\* The metadata a Load handler was called with carries exactly one value of
\* "key" and that value is the listen key of the handler's node.
KeyAccepted(k) == Len(lh[k].md) = 1 /\ lh[k].md[1] = listenKey(lh[k].node)

\* C10: Load hands bytes to the runtime load of its node only if the request
\* metadata has exactly one value of "key" and it equals the node's listen
\* key; any other request returns an error, the runtime load is never started
\* and no byte reaches the runtime.
C10_LoadRequiresListenKey ==
  \A k \in StreamIds :
    lh[k].pc \in {"run", "done"} =>
      \/ KeyAccepted(k)
      \/ /\ lh[k].pc = "done"
         /\ lh[k].err # NoErr
         /\ lh[k].loadPc = "off"
         /\ lh[k].loaded = <<>>

\* A Load with the listen key has returned nil after its whole payload
\* reached the runtime.
C10_Witness ==
  \E k \in StreamIds :
    /\ lh[k].pc = "done"
    /\ lh[k].err = NoErr
    /\ KeyAccepted(k)
    /\ ext.pc = "closed" /\ ext.k = k
    /\ Len(ext.payload) = MaxChunks
    /\ lh[k].loaded = ext.payload

Init == ProxyInit /\ LoadIdle /\ BootIdle /\ ListenIdle /\ OuterIdle /\ ChooseIdle /\ CliIdle /\ MdIdle /\ RmIdle /\ OptIdle

Next == ProxyNext

Spec == Init /\ [][Next]_vars

(***************************************************************************)
(* The pass-through pipes: fileSyncProxy.DiffCopy, fileSendProxy.DiffCopy  *)
(* without hijack, uploadProxy.Pull                                        *)
(***************************************************************************)
PipeKinds == {"FileSync.DiffCopy", "FileSend.DiffCopy", "Upload.Pull"}
MsgCtxCanceled == "context canceled"

\* buildkitd opens the stream and the handler opens its counterpart to the
\* CLI: on success both copy tasks are started and the handler waits on
\* `finished`; on failure the handler returns the wrapped error.
PipeOpen(d) ==
  /\ DcFree(d)
  /\ \E kind \in PipeKinds :
       \/ dc' = [dc EXCEPT ![d] =
            [IdleDc EXCEPT !.pc = "pipe", !.route = "client",
               !.pipe = [kind |-> kind,
                         copier |-> [dir \in Dirs |-> [pc |-> "copy", n |-> 0, err |-> NoErr]],
                         handler |-> "waiting"]]]
       \/ dc' = [dc EXCEPT ![d] =
            [IdleDc EXCEPT !.pc = "done", !.route = "client", !.pipe.kind = kind,
               !.err = "failed to establish the stream to CLI"]]
  /\ UNCHANGED <<sessions, rpc, solve, notProxy>>

\* A copy task receives a message on one stream and sends it on the other.
PipeForward(d, dir) ==
  /\ dc[d].pc = "pipe"
  /\ dc[d].pipe.handler = "waiting"
  /\ dc[d].pipe.copier[dir].pc = "copy"
  /\ dc[d].pipe.copier[dir].n < MaxChunks
  /\ dc' = [dc EXCEPT ![d].pipe.copier[dir].n = @ + 1]
  /\ UNCHANGED <<sessions, rpc, solve, notProxy>>

\* RecvMsg or SendMsg of a copy task returns an error: io.EOF at the end of
\* the direction or a stream error while the RPC is in progress, the
\* cancellation of the streams' context once the handler has returned.  The
\* task leaves its loop and goes to send the error on `finished`.
PipeCopyEnds(d, dir) ==
  /\ dc[d].pc \in {"pipe", "done"}
  /\ dc[d].pipe.copier[dir].pc = "copy"
  /\ \E e \in IF dc[d].pipe.handler = "waiting" THEN {"EOF", "stream error"}
                                                ELSE {MsgCtxCanceled} :
       dc' = [dc EXCEPT ![d].pipe.copier[dir].pc = "sending",
                        ![d].pipe.copier[dir].err = e]
  /\ UNCHANGED <<sessions, rpc, solve, notProxy>>

\* `finished` has no buffer: a task's send completes when the handler
\* receives, which it does once; the handler returns nil for io.EOF and the
\* error otherwise, and the task ends.
PipeHandlerReceives(d, dir) ==
  /\ dc[d].pc = "pipe"
  /\ dc[d].pipe.handler = "waiting"
  /\ dc[d].pipe.copier[dir].pc = "sending"
  /\ dc' = [dc EXCEPT ![d].pc = "done",
                      ![d].err = IF dc[d].pipe.copier[dir].err = "EOF" THEN NoErr
                                 ELSE dc[d].pipe.copier[dir].err,
                      ![d].pipe.handler = "returned",
                      ![d].pipe.copier[dir].pc = "exited"]
  /\ UNCHANGED <<sessions, rpc, solve, notProxy>>

PipeNext ==
  \/ \E d \in DiffCopies : PipeOpen(d)
  \/ \E d \in DiffCopies : \E dir \in Dirs : PipeForward(d, dir)
  \/ \E d \in DiffCopies : \E dir \in Dirs : PipeCopyEnds(d, dir)
  \/ \E d \in DiffCopies : \E dir \in Dirs : PipeHandlerReceives(d, dir)

\* The handler takes what a task sends, and a call on a stream whose context
\* is cancelled returns.
PipeFairness ==
  \A d \in DiffCopies : \A dir \in Dirs :
    /\ WF_vars(PipeHandlerReceives(d, dir))
    /\ WF_vars(PipeCopyEnds(d, dir) /\ dc[d].pipe.handler = "returned")

PipeLiveSpec == Init /\ [][PipeNext]_vars /\ PipeFairness

\* C38: once a copy task of a pass-through pipe has ended its direction, the
\* RPC returns and both copy tasks end.
C38_PipeTasksTerminate ==
  \A d \in DiffCopies :
    (\E dir \in Dirs : dc[d].pipe.copier[dir].pc = "sending")
      ~> (/\ dc[d].pipe.handler = "returned"
          /\ \A dir \in Dirs : dc[d].pipe.copier[dir].pc = "exited")

\* The Session RPC alone, with its metadata observed.
SessionNext ==
  \/ \E r \in SessRPCs : SessionEnterObserved(r)
  \/ \E r \in SessRPCs : SessionSetup(r)
  \/ \E r \in SessRPCs : SessionFinish(r)

SessionSpec == Init /\ [][SessionNext]_vars

\* The metadata of RPC r carries exactly one value of each of the three headers.
OneValueEach(r) ==
  /\ Len(sessionMd[r]) = 3
  /\ \A h \in 1..3 : Len(sessionMd[r][h]) = 1

\* C25: a Session RPC whose metadata does not carry exactly one value of
\* each of the session-name, shared-key and session-ID headers returns an
\* error from its entry: it never reaches the call that opens the session
\* stream to buildkitd, and it does not touch the session map.
C25_MalformedHeadersFailEarly ==
  [][\A r \in SessRPCs :
        (rpc[r].pc = "idle" /\ rpc'[r].pc # "idle" /\ ~OneValueEach(r)') =>
          /\ rpc'[r].pc = "done"
          /\ rpc'[r].err = "malformed session header"
          /\ sessions' = sessions]_vars

\* A Session RPC with a name, a shared key and two session IDs has returned
\* the header error while another one with good headers runs.
C25_Witness ==
  \E r, o \in SessRPCs :
    /\ sessionMd[r] = <<(<<"n">>), (<<"k">>), (<<"s1", "s2">>)>>
    /\ rpc[r].pc = "done"
    /\ rpc[r].err = "malformed session header"
    /\ rpc[o].pc = "running"
    /\ OneValueEach(o)

LoadNext ==
  \/ CallerOpen
  \/ CallerSend
  \/ CallerEnd
  \/ \E k \in StreamIds : LoadEnter(k)
  \/ \E k \in StreamIds : LoadRecv(k)
  \/ \E k \in StreamIds : LoadRecvReturn(k)
  \/ \E k \in StreamIds : LoadRuntimeReturn(k)
  \/ \E k \in StreamIds : LoadReturn(k)

LoadSpec == Init /\ [][LoadNext]_vars

FanoutInit == ProxyInit /\ LoadInit /\ BootIdle /\ ListenIdle /\ OuterIdle /\ ChooseIdle /\ CliIdle /\ MdIdle /\ RmIdle /\ OptIdle

FanoutSpec == FanoutInit /\ [][FanoutNext]_vars

\* s is the beginning of t.
IsPrefix(s, t) == Len(s) <= Len(t) /\ \A i \in DOMAIN s : s[i] = t[i]

\* C23: with an empty roster ImageLoad dials no peer and opens no Load
\* stream (no sender task, no stream, no handler, no pipe and no copy task),
\* the local runtime load reads the input itself, and ImageLoad returns what
\* the local load returned: nil when it succeeded, after the whole input.
C23_EmptyRosterLoadsLocallyOnly ==
  (remotes = <<>> /\ il.pc # "idle") =>
    /\ \A k \in StreamIds : snd[k] = OffSender /\ st[k] = OffStream /\ lh[k] = OffHandler
    /\ copier = OffCopier
    /\ ~replicationLock
    /\ local.pc # "off"
    /\ local.got = SubSeq(il.input, 1, local.pos)
    /\ IsPrefix(local.got, il.input)
    /\ il.pc = "done" =>
         /\ local.pc = "done"
         /\ il.err = local.err
         /\ local.err = NoErr => local.got = il.input

\* ImageLoad returned nil with an empty roster after the local load took a
\* payload of more than one chunk.
C23_Witness ==
  /\ remotes = <<>>
  /\ il.pc = "done"
  /\ il.err = NoErr
  /\ local.err = NoErr
  /\ Len(il.input) > 1
  /\ local.got = il.input

\* C32: ImageLoad has released the replication lock whenever it has
\* returned, so that no later call waits for the lock of a returned ImageLoad.
C32_ImageLoadReleasesLock ==
  il.pc = "done" => ~replicationLock

\* Every task of ImageLoad and of the peers' Load handlers keeps running, and
\* the input delivers its chunks and then its end; a read error of the input
\* may happen and is not promised.
FanoutFairness ==
  /\ WF_vars(ImageLoadConnect)
  /\ WF_vars(ImageLoadFanOut)
  /\ WF_vars(CopierWriteLocal)
  /\ \A k \in StreamIds : WF_vars(CopierWriteSender(k))
  /\ WF_vars(CopierEnd /\ copier.pos = Len(il.input))
  /\ WF_vars(LocalReadDirect)
  /\ WF_vars(LocalLoadReturn)
  /\ \A k \in StreamIds : WF_vars(SenderSend(k))
  /\ \A k \in StreamIds : WF_vars(SenderReadEOF(k))
  /\ \A k \in StreamIds : WF_vars(SenderClosed(k))
  /\ WF_vars(ImageLoadReturn)
  /\ \A k \in StreamIds : WF_vars(LoadEnter(k))
  /\ \A k \in StreamIds : WF_vars(LoadRecv(k))
  /\ \A k \in StreamIds : WF_vars(LoadRecvReturn(k))
  /\ \A k \in StreamIds : WF_vars(LoadRuntimeReturn(k))
  /\ \A k \in StreamIds : WF_vars(LoadReturn(k))

FanoutLiveSpec == FanoutInit /\ [][FanoutNext]_vars /\ FanoutFairness

\* A destination of the running ImageLoad has failed: the local load or the
\* sender task of a peer has returned an error.
DestinationFailed ==
  \/ local.pc = "done" /\ local.err # NoErr
  \/ \E k \in StreamIds : snd[k].pc = "done" /\ SenderResult(snd[k].err) # NoErr

\* C33: an ImageLoad waiting for its tasks eventually returns once the input
\* has ended, a destination has failed or the group's context is done.
C33_ImageLoadEventuallyReturns ==
  (il.pc = "wait" /\ (copier.pc = "done" \/ DestinationFailed \/ il.ctxDone))
    ~> (il.pc = "done")

\* Bootstrap p has returned.
Returned(p) == boot[p].pc = "done"

\* C5: a Bootstrap that finds its context done before the deployment has
\* its ready replicas never returns success; the return from the readiness
\* loop is the latest error wrapped in "timed out waiting for builder to
\* become ready".
C5_CancelledBootstrapFails ==
  \A p \in Booters :
    (Returned(p) /\ boot[p].via \in {"createConfigMap", "createBuilder"}
       /\ ~boot[p].atReturn.ready) =>
      /\ boot[p].result # Nil
      /\ boot[p].via = "createBuilder" =>
           /\ Contains(boot[p].result, MsgTimedOut)
           /\ boot[p].result = <<MsgTimedOut>> \o boot[p].err

\* C6: when Bootstrap has returned success, the namespace held, at the
\* return, exactly one deployment and exactly one config map with the
\* builder's name.
C6_SuccessLeavesOnePair ==
  \A p \in Booters :
    (Returned(p) /\ boot[p].result = Nil) =>
      /\ Cardinality({ d \in boot[p].atReturn.deployments : d.name = BuilderName }) = 1
      /\ Cardinality({ c \in boot[p].atReturn.configMaps : c.name = BuilderName }) = 1

\* C7: a successful Bootstrap called after another successful Bootstrap
\* returned, with the same driver options, leaves the objects (names, spec,
\* payload) the first one left.
C7_SequentialBootstrapsIdempotent ==
  \A p \in Booters : \A q \in Booters :
    (/\ Returned(p) /\ boot[p].result = Nil
     /\ Returned(q) /\ boot[q].result = Nil
     /\ p \in boot[q].after
     /\ boot[p].opts = boot[q].opts) =>
      /\ boot[q].atReturn.deployments = boot[p].atReturn.deployments
      /\ boot[q].atReturn.configMaps = boot[p].atReturn.configMaps

\* C2: when two Bootstraps on the same builder name, with the runtime left
\* to the default and no context cancelled, have both returned, both
\* returned nil and the namespace holds exactly one deployment and one
\* config map of that name.
C2_ConcurrentBootstrapsBothSucceed ==
  (\A p \in Booters : Returned(p) /\ ~boot[p].ctxDone /\ boot[p].opts.runtime = "") =>
    /\ \A p \in Booters : boot[p].result = Nil
    /\ Cardinality(NamedDeployments) = 1
    /\ Cardinality(NamedConfigMaps) = 1

(***************************************************************************)
(* Claims about the peer listener                                          *)
(***************************************************************************)
\* C11: the peer TCP listener is open exactly while the listen refcount is
\* above zero; a successful Listen has raised the count by one and a
\* successful StopListen has lowered it by one.
C11_ListenerIffRefCount ==
  /\ (listener = "open") <=> (listenRefCount > 0)
  /\ (call.op = "Listen" /\ call.err = NoErr) => listenRefCount = call.before + 1
  /\ (call.op = "StopListen" /\ call.err = NoErr) => listenRefCount = call.before - 1

ListenSpec == Init /\ [][ListenNext]_vars

\* The key the roster holds for an address, "none" when it has no entry.
KeyOf(roster, addr) ==
  IF \E i \in DOMAIN roster : roster[i].Addr = addr
    THEN roster[CHOOSE i \in DOMAIN roster : roster[i].Addr = addr].Key
    ELSE "none"

\* The key the last node of the list that names the address gives.
LastKeyGiven(nodes, addr) ==
  nodes[CHOOSE i \in DOMAIN nodes :
          /\ nodes[i].Addr = addr
          /\ \A j \in DOMAIN nodes : nodes[j].Addr = addr => j <= i].Key

\* C22: the roster never holds two entries of one peer address; a Replicate
\* call leaves, for every address it names, the key it gives for the address
\* (the last one when it names the address twice), and the key of any other
\* address is left as it was, by Replicate and by every other call.
C22_RosterKeepsLatestKey ==
  [][ /\ \A i, j \in DOMAIN remotes' : remotes'[i].Addr = remotes'[j].Addr => i = j
      /\ \A addr \in PeerAddrs :
           IF Replicate /\ \E i \in DOMAIN call'.nodes : call'.nodes[i].Addr = addr
             THEN KeyOf(remotes', addr) = LastKeyGiven(call'.nodes, addr)
             ELSE KeyOf(remotes', addr) = KeyOf(remotes, addr)
    ]_vars

\* A Replicate call of two nodes gave a new key to the address of the
\* roster's first entry and added a second entry.
C22_Witness ==
  /\ call.op = "Replicate"
  /\ Len(call.nodes) = 2
  /\ Len(remotes) = 2
  /\ call.nodes[1].Addr # call.nodes[2].Addr
  /\ remotes[1] = call.nodes[2]
  /\ remotes[2] = call.nodes[1]

ZeroRefcountError == "internal error - zero refcount on StopListen"

\* C24: a StopListen call at refcount zero returns the error "internal
\* error - zero refcount on StopListen" and leaves the refcount at zero and
\* the listener and the gRPC server as they were.
C24_StopListenAtZeroFails ==
  [][ (StopListen /\ listenRefCount = 0) =>
        /\ call'.op = "StopListen"
        /\ call'.err = ZeroRefcountError
        /\ listenRefCount' = 0
        /\ listener' = listener
        /\ grpcServer' = grpcServer
        /\ serveTask' = serveTask
    ]_vars

\* StopListen failed at refcount zero after the listener had been used.
C24_Witness ==
  /\ call.op = "StopListen"
  /\ call.err = ZeroRefcountError
  /\ call.before = 0
  /\ listenRefCount = 0
  /\ grpcServer = "stopped"

\* C13: a Bootstrap whose runtime the user pinned never goes to update the
\* deployment and keeps its runtime choice, and once it has seen a
\* FailedMount "is not a socket file" event it has returned the error.
C13_PinnedRuntimeSurfacesError ==
  \A p \in Booters :
    boot[p].opts.runtime # "" =>
      /\ boot[p].pc \notin {"cbUpdate", "cbCleanup"}
      /\ boot[p].runtime = boot[p].opts.runtime
      /\ (\E ev \in boot[p].reportedEvents : NotSocketFile(ev)) =>
           /\ Returned(p)
           /\ boot[p].result = <<MsgWrongRuntime>>

\* A pinned Bootstrap has returned the error and the deployment still has
\* the pinned runtime.
C13_Witness ==
  \E p \in Booters :
    /\ boot[p].opts.runtime # ""
    /\ Returned(p)
    /\ boot[p].result = <<MsgWrongRuntime>>
    /\ \A d \in NamedDeployments : d.runtime = boot[p].opts.runtime
    /\ NamedDeployments # {}

BootstrapInit == ProxyInit /\ LoadIdle /\ BootInit /\ ListenIdle /\ OuterIdle /\ ChooseIdle /\ CliIdle /\ MdIdle /\ RmIdle /\ OptIdle

BootSpec == BootstrapInit /\ [][BootNext]_vars

\* A step of Bootstrap p after its start.
BooterStep(p) ==
  \/ ConfigMapTop(p)
  \/ ConfigMapGet(p)
  \/ ConfigMapCreate(p)
  \/ ConfigMapUpdate(p)
  \/ BuilderTop(p)
  \/ BuilderGet(p)
  \/ BuilderCreate(p)
  \/ BuilderInspect(p)
  \/ BuilderUpdate(p)
  \/ BuilderCleanup(p)

\* A CLI whose options ask for two replicas, and name no runtime or pin one,
\* builds its driver and calls Bootstrap while no other CLI is at work.
BootStartReplicated(p) ==
  /\ boot[p].pc = "idle"
  /\ \A q \in Booters \ {p} : boot[q].pc \in {"idle", "done"}
  /\ \E opts \in DriverOpts :
       boot' = [boot EXCEPT ![p] =
                  [IdleBoot EXCEPT !.pc = "cmTop", !.opts = opts,
                     !.replicas = 2,
                     !.runtime = IF opts.runtime = "" THEN DefaultContainerRuntime
                                                       ELSE opts.runtime,
                     !.userSpecifiedRuntime = opts.runtime # "",
                     !.err = <<"timeout before first attempt">>]]
  /\ UNCHANGED <<nodeRuntime, configMaps, deployments, pods, notBoot>>

ReplicaNext ==
  \/ \E p \in Booters : BootStartReplicated(p)
  \/ \E p \in Booters : Cancel(p)
  \/ \E p \in Booters : BooterStep(p)
  \/ ControllerSync
  \/ KubeletStart

ReplicaSpec == BootstrapInit /\ [][ReplicaNext]_vars

\* The event Bootstrap p reports in this step.
ReportedNow(p, ev) ==
  /\ ev \notin boot[p].reportedEvents
  /\ ev \in boot'[p].reportedEvents

\* C35: a step of Bootstrap flips the runtime only when the runtime is not
\* pinned, and pins it; the pin lasts as long as the Bootstrap; and a
\* Bootstrap returns the runtime-mismatch error only when its options pinned
\* the runtime or the mismatch event it reports is of a pod of the runtime
\* it flipped to.
C35_FlipOnceAndOldPodsHarmless ==
  [][ \A p \in Booters :
        /\ (boot[p].pc # "cbUpdate" /\ boot'[p].pc = "cbUpdate") =>
             /\ ~boot[p].userSpecifiedRuntime
             /\ boot'[p].userSpecifiedRuntime
             /\ boot'[p].runtime = Flip(boot[p].runtime)
        /\ (boot[p].userSpecifiedRuntime /\ boot[p].pc \notin {"idle", "done"}) =>
             /\ boot'[p].userSpecifiedRuntime
             /\ boot'[p].runtime = boot[p].runtime
        /\ (boot[p].pc # "done" /\ boot'[p].pc = "done"
              /\ boot'[p].result = <<MsgWrongRuntime>>) =>
             \/ boot[p].opts.runtime # ""
             \/ \E ev \in PodEvents : \E x \in pods :
                  /\ ReportedNow(p, ev) /\ NotSocketFile(ev)
                  /\ x.id = ev.pod
                  /\ x.runtime = boot[p].runtime
                  /\ boot[p].runtime # DefaultContainerRuntime
    ]_vars

\* Bootstraps whose context is never cancelled.
BootLiveNext ==
  \/ \E p \in Booters : BootStart(p)
  \/ \E p \in Booters : BooterStep(p)
  \/ ControllerSync
  \/ KubeletStart

\* A started Bootstrap keeps running, and so do the cluster's controllers
\* and kubelet.
BootFairness ==
  /\ \A p \in Booters : WF_vars(BooterStep(p))
  /\ WF_vars(ControllerSync)
  /\ WF_vars(KubeletStart)

BootLiveSpec == BootstrapInit /\ [][BootLiveNext]_vars /\ BootFairness

\* C12: a Bootstrap with the runtime not pinned that has seen the FailedMount
\* "is not a socket file" event and goes to update the deployment to the
\* other runtime eventually returns success, on nodes where the pods of the
\* other runtime become ready.
C12_FlipEventuallySucceeds ==
  \A p \in Booters :
    (boot[p].pc = "cbUpdate" /\ boot[p].opts.runtime = "" /\ nodeRuntime = boot[p].runtime)
      ~> (Returned(p) /\ boot[p].result = Nil)

\* failFast knowing the first message only.
failFastFirstOnly(err) ==
  /\ err # Nil
  /\ Contains(err, "Failed to pull image")

(***************************************************************************)
(* driver.Boot: Info, Bootstrap when not running, Clients                  *)
(***************************************************************************)
\* failFast: the errors Boot does not retry.
failFast(err) ==
  /\ err # Nil
  /\ \/ Contains(err, "Failed to pull image")
     \/ Contains(err, "Error: ErrImagePull")

\* A CLI builds its driver from its options and calls Boot.
BootCall(p) ==
  /\ outer[p].pc = "idle"
  /\ boot[p].pc = "idle"
  /\ \E opts \in DriverOpts :
       boot' = [boot EXCEPT ![p] =
                  [IdleBoot EXCEPT !.opts = opts,
                     !.runtime = IF opts.runtime = "" THEN DefaultContainerRuntime
                                                       ELSE opts.runtime,
                     !.userSpecifiedRuntime = opts.runtime # ""]]
  /\ outer' = [outer EXCEPT ![p] = [pc |-> "top", err |-> <<"timeout before starting">>]]
  /\ UNCHANGED <<nodeRuntime, configMaps, deployments, pods, notOuter>>

\* Driver.Info fails when the pods of a ready deployment cannot be listed.
MsgInfoFailed == "cannot list the builder's pods"

\* Driver.Info reports Running when the deployment has a ready replica.
InfoRunning == \E d \in NamedDeployments : d.readyReplicas > 0

\* One turn of Boot's loop up to the call of Bootstrap: return when the
\* context is done; go on to Clients when Info reports Running; call
\* Bootstrap otherwise, on the same driver.
BootInfo(p) ==
  /\ outer[p].pc = "top"
  /\ IF boot[p].ctxDone
       THEN /\ outer' = [outer EXCEPT ![p] =
                 [pc |-> "done",
                  err |-> Wrap(outer[p].err, "timed out trying to bootstrap builder")]]
            /\ UNCHANGED boot
       ELSE IF InfoRunning
         THEN /\ \/ outer' = [outer EXCEPT ![p].pc = "clients", ![p].err = Nil]
                 \/ outer' = [outer EXCEPT ![p] = [pc |-> "done", err |-> <<MsgInfoFailed>>]]
              /\ UNCHANGED boot
         ELSE /\ outer' = [outer EXCEPT ![p].pc = "bootstrap", ![p].err = Nil]
              /\ boot' = [boot EXCEPT ![p] =
                   [boot[p] EXCEPT !.pc = "cmTop",
                      !.err = <<"timeout before first attempt">>,
                      !.depl = 0, !.reportedEvents = {}, !.replica = {},
                      !.result = Nil, !.via = "none", !.atReturn = NoSnapshot,
                      !.after = { q \in Booters : boot[q].pc = "done" /\ boot[q].result = Nil }]]
  /\ UNCHANGED <<nodeRuntime, configMaps, deployments, pods, notOuter>>

\* Bootstrap has returned: Boot returns a fail-fast error, sleeps and starts
\* its loop over after another error, and goes on to Clients after nil.
BootBootstrapped(p) ==
  /\ outer[p].pc = "bootstrap"
  /\ boot[p].pc = "done"
  /\ outer' = [outer EXCEPT ![p] =
       IF boot[p].result = Nil THEN [pc |-> "clients", err |-> Nil]
       ELSE IF failFast(boot[p].result) THEN [pc |-> "done", err |-> boot[p].result]
       ELSE [pc |-> "top", err |-> boot[p].result]]
  /\ boot' = IF boot[p].result # Nil /\ ~failFast(boot[p].result)
               THEN [boot EXCEPT ![p].pc = "again"]
               ELSE boot
  /\ UNCHANGED <<nodeRuntime, configMaps, deployments, pods, notOuter>>

\* The errors of d.Clients: no pod to choose, more than one worker.
ClientsErrors ==
  { <<"no builder pods are running">>, <<"Multi-worker scenario not yet implemented">> }

\* Boot handing every error of d.Clients to its caller.
BootClientsNoRetry(p) ==
  /\ outer[p].pc = "clients"
  /\ \/ outer' = [outer EXCEPT ![p] = [pc |-> "done", err |-> Nil]]
     \/ \E e \in ClientsErrors :
          outer' = [outer EXCEPT ![p] = [pc |-> "done", err |-> e]]
  /\ UNCHANGED <<bootVars, notOuter>>

\* d.Clients returns the clients, and Boot returns them, or an error: Boot
\* returns a fail-fast error, and sleeps and starts its loop over after
\* another one.
BootClients(p) ==
  /\ outer[p].pc = "clients"
  /\ \/ outer' = [outer EXCEPT ![p] = [pc |-> "done", err |-> Nil]]
     \/ \E e \in ClientsErrors :
          outer' = [outer EXCEPT ![p] =
                      IF failFast(e) THEN [pc |-> "done", err |-> e]
                                     ELSE [pc |-> "top", err |-> e]]
  /\ UNCHANGED <<bootVars, notOuter>>

\* The kubelet fails to pull a pod's image and records the event.
KubeletPullFails ==
  /\ \E x \in pods : \E m \in PullMessages :
       /\ ~x.ready /\ ~x.failedMount /\ x.pullFailed = <<>>
       /\ pods' = (pods \ {x}) \cup {[x EXCEPT !.pullFailed = m]}
  /\ UNCHANGED <<nodeRuntime, configMaps, deployments, boot, notBoot>>

\* Bootstraps and an Rm on one namespace.
RmNext ==
  \/ \E p \in Booters : BootStart(p)
  \/ \E p \in Booters : Cancel(p)
  \/ \E p \in Booters : BooterStep(p)
  \/ ControllerSync
  \/ KubeletStart
  \/ RmCall
  \/ RmDeleteDeployment
  \/ RmDeleteConfigMap

RmSpec == BootstrapInit /\ [][RmNext]_vars

\* C26: Rm requests the deletion of the config map only after the deletion
\* of the deployment succeeded, and returns nil only from a successful
\* deletion of the config map; the deployment's deletion leaves no
\* deployment of the builder's name, and when Rm returns nil, with no
\* Bootstrap at work since Rm's first call, the namespace holds neither a
\* deployment nor a config map of the builder's name.
C26_RmDeletesBothInOrder ==
  [][ /\ rm'.pc = "deleteConfigMap" => rm.pc \in {"deleteDeployment", "deleteConfigMap"}
      /\ (rm.pc = "deleteDeployment" /\ rm'.pc = "deleteConfigMap") =>
           /\ NamedDeployments # {}
           /\ NamedDeployments' = {}
           /\ configMaps' = configMaps
      /\ (rm.pc = "deleteDeployment" /\ rm'.pc = "done") =>
           /\ rm'.err # Nil
           /\ Contains(rm'.err, MsgDeleteDeployment)
           /\ configMaps' = configMaps /\ deployments' = deployments
      /\ (rm.pc = "deleteConfigMap" /\ rm'.pc = "done") =>
           IF rm'.err = Nil
             THEN /\ NamedConfigMaps # {}
                  /\ NamedConfigMaps' = {}
                  /\ rm'.alone => NamedDeployments' = {}
             ELSE /\ Contains(rm'.err, MsgDeleteConfigMap)
                  /\ configMaps' = configMaps
    ]_vars

\* Rm has returned nil after a Bootstrap had made the builder ready, and the
\* namespace holds nothing of the builder.
C26_Witness ==
  /\ rm.pc = "done" /\ rm.err = Nil /\ rm.alone
  /\ \E p \in Booters : /\ boot[p].pc = "done" /\ boot[p].result = Nil
                          /\ boot[p].atReturn.ready
  /\ NamedDeployments = {} /\ NamedConfigMaps = {}

\* Bootstrap p ran alone after a successful Rm that removed the builder the
\* Bootstrap q had made, with q's options, and both returned nil.
RmThenBootstrap(q, p) ==
  /\ rm.pc = "done" /\ rm.err = Nil /\ rm.alone
  /\ q \in rm.returned /\ p \notin rm.returned
  /\ boot[q].result = Nil
  /\ Returned(p) /\ boot[p].result = Nil
  /\ boot[p].opts = boot[q].opts

\* C27: a successful Bootstrap that follows a successful Rm of an existing
\* builder leaves the deployment and the config map (names, spec, payload)
\* that the successful Bootstrap with the same options left on the namespace
\* that had never held the builder.
C27_RmThenBootstrapAsFresh ==
  \A p \in Booters : \A q \in Booters :
    RmThenBootstrap(q, p) =>
      /\ boot[p].atReturn.deployments = boot[q].atReturn.deployments
      /\ boot[p].atReturn.configMaps = boot[q].atReturn.configMaps

DriverBootNext ==
  \/ \E p \in Booters : BootCall(p)
  \/ \E p \in Booters : BootInfo(p)
  \/ \E p \in Booters : BootBootstrapped(p)
  \/ \E p \in Booters : BootClients(p)
  \/ \E p \in Booters : BooterStep(p)
  \/ ControllerSync
  \/ KubeletStart
  \/ KubeletPullFails

DriverBootSpec == BootstrapInit /\ [][DriverBootNext]_vars

HardPullFailure(message) ==
  Contains(message, "Failed to pull image") \/ Contains(message, "Error: ErrImagePull")

\* C14: a Bootstrap that has logged a Warning event with reason Failed whose
\* message contains "Failed to pull image" or "Error: ErrImagePull" has
\* returned that message as its error; and after a Bootstrap returned such an
\* error, Boot does not call Bootstrap again and returns that very error.
C14_PullFailureFailsFast ==
  \A p \in Booters :
    /\ \A ev \in boot[p].reportedEvents :
         (ev.reason = "Failed" /\ HardPullFailure(ev.message)) =>
           /\ boot[p].pc = "done"
           /\ boot[p].result = ev.message
    /\ (boot[p].pc \in {"done", "again"} /\ HardPullFailure(boot[p].result)) =>
         /\ boot[p].pc = "done"
         /\ outer[p].pc \in {"bootstrap", "done"}
         /\ outer[p].pc = "done" => outer[p].err = boot[p].result

\* Boot has returned the ErrImagePull message its Bootstrap returned.
C14_Witness ==
  \E p \in Booters :
    /\ outer[p].pc = "done"
    /\ boot[p].pc = "done"
    /\ outer[p].err = boot[p].result
    /\ Contains(outer[p].err, "Error: ErrImagePull")
    /\ \E ev \in boot[p].reportedEvents : ev.message = outer[p].err

(***************************************************************************)
(* Claims about a configuration object that exists before Bootstrap        *)
(***************************************************************************)
\* The namespace may hold the builder's ConfigMap before any CLI runs.
ConfigInit ==
  /\ ProxyInit /\ LoadIdle /\ ListenIdle /\ OuterIdle /\ ChooseIdle /\ CliIdle /\ MdIdle /\ RmIdle /\ OptIdle
  /\ nodeRuntime = "containerd"
  /\ configMaps \in {{}, {PreExistingConfigMap}}
  /\ deployments = {}
  /\ pods = {}
  /\ boot = [p \in Booters |-> IdleBoot]

ConfigSpec == ConfigInit /\ [][BootNext]_vars

\* The bytes of the config file the user of p supplied.
SuppliedBytes(p) == <<"file">>

C36_UpdatesAreConditional ==
  [][ \A p \in Booters :
        /\ (boot[p].pc = "cbUpdate" /\ boot'[p].pc = "cbCleanup") =>
             \A d \in NamedDeployments : d.resourceVersion = boot[p].depl
        /\ (boot[p].pc = "cmUpdate" /\ boot'[p].pc = "cbTop") =>
             NamedConfigMaps = boot[p].cmSeen
    ]_vars

(***************************************************************************)
(* podchooser: ListRunningPods, filterPods, the random and sticky choosers *)
(***************************************************************************)
PodNames == {"pod-a", "pod-b"}
StickyKeys == {"ctx1", "ctx2"}

\* The order of pod names as strings.
NameLess(a, b) == a = "pod-a" /\ b = "pod-b"

LinuxAmd64 == [OS |-> "linux", Architecture |-> "amd64", Variant |-> ""]
LinuxArmV7 == [OS |-> "linux", Architecture |-> "arm", Variant |-> "v7"]
Platforms == {LinuxAmd64, LinuxArmV7}

\* platforms.Format: OS, architecture and variant joined, empty parts left out.
Format(platform) ==
  IF platform.Variant = "" THEN <<platform.OS, platform.Architecture>>
  ELSE <<platform.OS, platform.Architecture, platform.Variant>>

\* The platform lists of a request.
PlatformLists == UNION { [1..n -> Platforms] : n \in 0..MaxPlatforms }

\* What GetWorkersForPod answers for a pod: its workers, or an error.
MsgMultiWorker == "Multi-worker scenario not yet implemented"
MsgNoPods == "no builder pods are running"
WorkerReplies ==
  { [workers |-> <<[Platforms |-> <<LinuxAmd64>>]>>, err |-> ""],
    [workers |-> <<[Platforms |-> <<LinuxAmd64, LinuxArmV7>>]>>, err |-> ""],
    [workers |-> <<[Platforms |-> <<LinuxAmd64>>], [Platforms |-> <<LinuxArmV7>>]>>, err |-> ""],
    [workers |-> <<>>, err |-> "context deadline exceeded"] }

\* The orders in which the cluster API may list a set of pods.
Listings(S) ==
  { f \in [1..Cardinality(S) -> S] : \A i, j \in 1..Cardinality(S) : f[i] = f[j] => i = j }

\* sort.Slice by name.
RECURSIVE SortByName(_)
SortByName(items) ==
  IF Len(items) = 0 THEN <<>>
  ELSE LET i == CHOOSE k \in DOMAIN items :
                  \A j \in DOMAIN items : ~NameLess(items[j].Name, items[k].Name)
           rest == [k \in 1..(Len(items) - 1) |-> IF k < i THEN items[k] ELSE items[k + 1]]
       IN <<items[i]>> \o SortByName(rest)

\* ListRunningPods: the listed pods in phase Running, sorted by name.
ListRunningPods(items) ==
  SortByName(SelectSeq(items, LAMBDA pod : pod.Phase = "Running"))

\* The platform loop of filterPods for one pod: matched is declared before
\* the loop over the requested platforms and only ever set to true.
RECURSIVE matchedAfter(_, _, _, _)
matchedAfter(platformList, cmps, i, matched) ==
  IF i > Len(platformList) THEN matched
  ELSE LET m == matched \/ \E j \in DOMAIN cmps : Format(platformList[i]) = Format(cmps[j])
       IN IF ~m THEN FALSE ELSE matchedAfter(platformList, cmps, i + 1, m)

RECURSIVE filterFrom(_, _, _, _)
filterFrom(running, platformList, i, res) ==
  IF i > Len(running) THEN [pods |-> res, err |-> ""]
  ELSE LET reply == running[i].reply IN
       IF reply.err # "" THEN [pods |-> <<>>, err |-> reply.err]
       ELSE IF Len(reply.workers) = 1
         THEN filterFrom(running, platformList, i + 1,
                IF matchedAfter(platformList, reply.workers[1].Platforms, 1, FALSE)
                  THEN Append(res, running[i]) ELSE res)
         ELSE [pods |-> <<>>, err |-> MsgMultiWorker]

\* filterPods: every pod when no platform is requested.
filterPods(running, platformList) ==
  IF Len(platformList) = 0 THEN [pods |-> running, err |-> ""]
  ELSE filterFrom(running, platformList, 1, <<>>)

\* The place of a name or key on the hash ring.
HashKey(str) ==
  CASE str = "pod-a" -> 5 [] str = "pod-b" -> 1
    [] str = "ctx1" -> 2 [] str = "ctx2" -> 6 [] OTHER -> 0

\* A ring that finds no node.
GetNodeNever(podNames, key) == [node |-> "", ok |-> FALSE]

\* hashring.New(podNames).GetNode(key): the first node at or after the key's
\* place, around the ring; no node on an empty ring.
GetNode(podNames, key) ==
  IF Len(podNames) = 0 THEN [node |-> "", ok |-> FALSE]
  ELSE LET nodes == { podNames[i] : i \in DOMAIN podNames }
           after == { n \in nodes : HashKey(n) >= HashKey(key) }
           first(S) == CHOOSE n \in S : \A m \in S : HashKey(n) <= HashKey(m)
       IN [node |-> IF after # {} THEN first(after) ELSE first(nodes), ok |-> TRUE]

\* What a ChoosePod call comes to: a pod, an error, or a run-time panic.
Chose(pod, f) == [pod |-> pod.Name, err |-> "", panic |-> FALSE,
                  filtered |-> TRUE, kept |-> { f.pods[i].Name : i \in DOMAIN f.pods }]
Failed(err) == [pod |-> "", err |-> err, panic |-> FALSE, filtered |-> FALSE, kept |-> {}]
Panicked(f) == [pod |-> "", err |-> "", panic |-> TRUE,
                filtered |-> TRUE, kept |-> { f.pods[i].Name : i \in DOMAIN f.pods }]

\* RandomPodChooser.ChoosePod with r the value of rnd.Int(): the remainder
\* by the number of filtered pods panics when there is none.
RandomChoosePod(items, platformList, r) ==
  LET running == ListRunningPods(items) IN
  IF Len(running) = 0 THEN Failed(MsgNoPods)
  ELSE LET f == filterPods(running, platformList) IN
       IF f.err # "" THEN Failed(f.err)
       ELSE IF Len(f.pods) = 0 THEN Panicked(f)
       ELSE Chose(f.pods[(r % Len(f.pods)) + 1], f)

\* StickyPodChooser.ChoosePod: the ring's node for the key, and the random
\* chooser when the ring has none.
StickyChoosePod(items, key, platformList, r) ==
  LET f == filterPods(ListRunningPods(items), platformList) IN
  IF f.err # "" THEN Failed(f.err)
  ELSE LET podNames == [i \in DOMAIN f.pods |-> f.pods[i].Name]
           chosen == GetNode(podNames, key)
       IN IF ~chosen.ok THEN RandomChoosePod(items, platformList, r)
          ELSE Chose(CHOOSE pod \in { f.pods[i] : i \in DOMAIN f.pods } : pod.Name = chosen.node, f)

\* The deployment's pods, not yet running, each with the answer its
\* buildkitd gives about its workers.
ChooseInit ==
  /\ ProxyInit /\ LoadIdle /\ BootIdle /\ ListenIdle /\ OuterIdle /\ CliIdle /\ MdIdle /\ RmIdle /\ OptIdle
  /\ chooser = NoChoice
  /\ \E present \in SUBSET PodNames :
       \E reply \in [present -> WorkerReplies] :
         podItems = { [Name |-> n, Phase |-> "Pending", reply |-> reply[n]] : n \in present }

\* A pod gets to phase Running; the calls compared start anew.
PodRuns ==
  /\ \E pod \in podItems :
       /\ pod.Phase = "Pending"
       /\ podItems' = (podItems \ {pod}) \cup {[pod EXCEPT !.Phase = "Running"]}
  /\ chooser' = NoChoice
  /\ UNCHANGED notChoose

\* A ChoosePod call of the random chooser.
RandomChoose ==
  /\ \E items \in Listings(podItems) : \E platformList \in PlatformLists : \E r \in 0..MaxRnd :
       LET out == RandomChoosePod(items, platformList, r) IN
       chooser' = [op |-> "random", key |-> "", platformList |-> platformList, repeated |-> FALSE,
                   filtered |-> out.filtered, kept |-> out.kept,
                   outs |-> {[pod |-> out.pod, err |-> out.err, panic |-> out.panic]}]
  /\ UNCHANGED <<podItems, notChoose>>

\* A ChoosePod call of the sticky chooser; outs gathers the outcomes of the
\* calls with one key and platform list.
StickyChoose ==
  /\ \E items \in Listings(podItems) : \E key \in StickyKeys :
     \E platformList \in PlatformLists : \E r \in 0..MaxRnd :
       LET out == StickyChoosePod(items, key, platformList, r)
           again == /\ chooser.op = "sticky" /\ chooser.key = key
                    /\ chooser.platformList = platformList
       IN chooser' = [op |-> "sticky", key |-> key, platformList |-> platformList,
                      repeated |-> again,
                      filtered |-> out.filtered, kept |-> out.kept,
                      outs |-> (IF again THEN chooser.outs ELSE {})
                                 \cup {[pod |-> out.pod, err |-> out.err, panic |-> out.panic]}]
  /\ UNCHANGED <<podItems, notChoose>>

ChooseNext == PodRuns \/ RandomChoose \/ StickyChoose

ChooseSpec == ChooseInit /\ [][ChooseNext]_vars

(***************************************************************************)
(* Claims about the pod choosers                                           *)
(***************************************************************************)
RunningPods == { pod \in podItems : pod.Phase = "Running" }

\* The worker of the pod reports every platform of the list.
ReportsEvery(pod, platformList) ==
  /\ Len(pod.reply.workers) = 1
  /\ \A i \in DOMAIN platformList :
       \E j \in DOMAIN pod.reply.workers[1].Platforms :
         Format(platformList[i]) = Format(pod.reply.workers[1].Platforms[j])

\* C16: when the pod filtering of the latest ChoosePod call returned pods,
\* with a non-empty platform list it kept exactly the running pods whose
\* worker reports every requested platform, and with an empty list every
\* running pod.
C16_FilterKeepsSupportingPods ==
  chooser.filtered =>
    chooser.kept =
      IF chooser.platformList = <<>> THEN { pod.Name : pod \in RunningPods }
      ELSE { pod.Name : pod \in { x \in RunningPods : ReportsEvery(x, chooser.platformList) } }

\* The pods ChoosePod may return: running and supporting every platform.
EligiblePods(platformList) ==
  { pod \in RunningPods : platformList = <<>> \/ ReportsEvery(pod, platformList) }

\* C17: a ChoosePod call made when no pod is eligible returned the error
\* "no builder pods are running": no pod, no other error and no panic.
C17_NoEligiblePodIsAnError ==
  (chooser.op # "none" /\ EligiblePods(chooser.platformList) = {}) =>
    chooser.outs = {[pod |-> "", err |-> MsgNoPods, panic |-> FALSE]}

\* C18: the sticky ChoosePod calls made with one key and one platform list
\* while the pods stayed the same all came to the same outcome, whatever the
\* order the API listed the pods in.
C18_StickyChoiceIsStable ==
  chooser.op = "sticky" => Cardinality(chooser.outs) = 1

\* Several sticky calls chose among at least two eligible pods.
C18_Witness ==
  /\ chooser.op = "sticky"
  /\ chooser.repeated
  /\ Cardinality(EligiblePods(chooser.platformList)) >= 2
  /\ \E o \in chooser.outs : o.pod # ""

(***************************************************************************)
(* build: resolveDrivers and splitToDriverPairs                            *)
(***************************************************************************)
Targets == {"default", "alt"}

\* A platform as a worker may report it, before platforms.Normalize.
LinuxX8664 == [OS |-> "linux", Architecture |-> "x86_64", Variant |-> ""]

\* platforms.Normalize: the canonical name of the architecture.
Normalize(platform) ==
  IF platform.Architecture = "x86_64" THEN [platform EXCEPT !.Architecture = "amd64"]
  ELSE platform

\* DriverInfo.Platform of a driver, and the drivers of a build; a driver's
\* name is its place in the list.
DriverPlatforms == {<<>>, <<LinuxAmd64>>, <<LinuxArmV7>>}
DriverLists ==
  UNION { { [i \in 1..n |-> [Name |-> i, Platform |-> f[i]]] : f \in [1..n -> DriverPlatforms] }
          : n \in 1..MaxDrivers }

\* The build options: the platform list of each target.
OptMaps == UNION { [T -> PlatformLists] : T \in SUBSET Targets \ {{}} }

\* What ListWorkers answers.
WorkerLists ==
  { <<>>,
    <<[Platforms |-> <<LinuxX8664>>]>>,
    <<[Platforms |-> <<LinuxArmV7, LinuxAmd64>>]>> }

\* availablePlatforms after the loop over the drivers: the last driver
\* listing the platform, counted from 0.
AvailableOf(drivers) ==
  LET has(i, k) == \E j \in DOMAIN drivers[i].Platform : Format(drivers[i].Platform[j]) = k
      keys == UNION { { Format(drivers[i].Platform[j]) : j \in DOMAIN drivers[i].Platform } :
                      i \in DOMAIN drivers }
  IN [k \in keys |->
        (CHOOSE i \in DOMAIN drivers :
           has(i, k) /\ \A i2 \in DOMAIN drivers : has(i2, k) => i2 <= i) - 1]

\* availablePlatforms after the loop over the workers: a platform not yet
\* there gets the first index whose workers report it.
MergeWorkers(available, workers) ==
  LET reports(i, k) ==
        \E w \in DOMAIN workers[i] : \E j \in DOMAIN workers[i][w].Platforms :
          Format(Normalize(workers[i][w].Platforms[j])) = k
      keysOf(i) == UNION { { Format(Normalize(workers[i][w].Platforms[j])) :
                               j \in DOMAIN workers[i][w].Platforms } :
                           w \in DOMAIN workers[i] }
      new == UNION { keysOf(i) : i \in DOMAIN workers } \ DOMAIN available
  IN [k \in DOMAIN available \cup new |->
        IF k \in DOMAIN available THEN available[k]
        ELSE (CHOOSE i \in DOMAIN workers :
                reports(i, k) /\ \A i2 \in DOMAIN workers : reports(i2, k) => i <= i2) - 1]

\* availablePlatforms[k], 0 when the platform is not in the map.
IndexOf(available, k) == IF k \in DOMAIN available THEN available[k] ELSE 0

\* A split that pairs only the platforms found in the map.
splitToDriverPairsDetected(availablePlatforms, opt) ==
  [k \in DOMAIN opt |->
     { [driverIndex |-> idx,
        platforms |-> SelectSeq(opt[k], LAMBDA p : /\ Format(p) \in DOMAIN availablePlatforms
                                                   /\ availablePlatforms[Format(p)] = idx)] :
       idx \in { availablePlatforms[Format(opt[k][j])] :
                   j \in { x \in DOMAIN opt[k] : Format(opt[k][x]) \in DOMAIN availablePlatforms } } }]

\* splitToDriverPairs: for each target, one pair per driver index some
\* requested platform maps to, holding the platforms that map to it.
splitToDriverPairs(availablePlatforms, opt) ==
  [k \in DOMAIN opt |->
     { [driverIndex |-> idx,
        platforms |-> SelectSeq(opt[k], LAMBDA p : IndexOf(availablePlatforms, Format(p)) = idx)] :
       idx \in { IndexOf(availablePlatforms, Format(opt[k][j])) : j \in DOMAIN opt[k] } }]

\* The fast path: every target wholly on driver 0.
FastPairs(opt) == [k \in DOMAIN opt |-> {[driverIndex |-> 0, platforms |-> opt[k]]}]

\* resolveDrivers up to its ensureBooted call.
ResolveCall ==
  /\ resolve.pc = "idle"
  /\ \E drivers \in DriverLists : \E opt \in OptMaps :
       LET availablePlatforms == AvailableOf(drivers)
           allPlatforms == UNION { { Format(opt[k][j]) : j \in DOMAIN opt[k] } : k \in DOMAIN opt }
           undetectedPlatform == \E k \in allPlatforms : k \notin DOMAIN availablePlatforms
           path == IF Len(drivers) = 1 \/ allPlatforms = {} THEN "fast"
                   ELSE IF ~undetectedPlatform THEN "split" ELSE "all"
       IN resolve' = [pc |-> "ensureBooted", drivers |-> drivers, opt |-> opt,
                      availablePlatforms |-> availablePlatforms, path |-> path,
                      workers |-> <<>>, from |-> <<>>, m |-> <<>>, err |-> ""]
  /\ UNCHANGED notResolve

\* ensureBooted returns: an error ends resolveDrivers, the fast path and the
\* split by the drivers' platforms return their pairs, and otherwise the
\* workers of every driver are listed.
EnsureBooted ==
  /\ resolve.pc = "ensureBooted"
  /\ \E ok \in BOOLEAN :
       resolve' =
         IF ~ok THEN [resolve EXCEPT !.pc = "done", !.err = "boot"]
         ELSE IF resolve.path = "fast"
           THEN [resolve EXCEPT !.pc = "done", !.m = FastPairs(resolve.opt)]
         ELSE IF resolve.path = "split"
           THEN [resolve EXCEPT !.pc = "done",
                   !.m = splitToDriverPairs(resolve.availablePlatforms, resolve.opt)]
         ELSE [resolve EXCEPT !.pc = "listing"]
  /\ UNCHANGED notResolve

\* The drivers whose clients the loop over the map `clients` has not come to.
NotListed == { d \in DOMAIN resolve.drivers :
                 \A i \in DOMAIN resolve.from : resolve.from[i] # d }

\* The ListWorkers task of the next index ends.  The index counts the turns
\* of the loop over the map `clients`, which takes the drivers in any order.
\* The task reads the loop variable driverName while the loop goes on, so the
\* client it calls is the one meant, or none, and then the call panics.
ListWorkers ==
  /\ resolve.pc = "listing"
  /\ Len(resolve.workers) < Len(resolve.drivers)
  /\ \/ \E ww \in WorkerLists : \E d \in NotListed :
          resolve' = [resolve EXCEPT !.workers = Append(@, ww), !.from = Append(@, d)]
     \/ resolve' = [resolve EXCEPT !.pc = "done", !.err = "listing workers"]
     \/ resolve' = [resolve EXCEPT !.pc = "panicked"]
  /\ UNCHANGED notResolve

\* eg.Wait returned nil: the workers' platforms are merged and split.
ResolveReturn ==
  /\ resolve.pc = "listing"
  /\ Len(resolve.workers) = Len(resolve.drivers)
  /\ resolve' = [resolve EXCEPT !.pc = "done",
                   !.availablePlatforms = MergeWorkers(@, resolve.workers),
                   !.m = splitToDriverPairs(MergeWorkers(resolve.availablePlatforms, resolve.workers),
                                            resolve.opt)]
  /\ UNCHANGED notResolve

ResolveNext == ResolveCall \/ EnsureBooted \/ ListWorkers \/ ResolveReturn

ResolveSpec == Init /\ [][ResolveNext]_vars

\* resolveDrivers returned pairs.
Resolved == resolve.pc = "done" /\ resolve.err = ""

\* C20: when resolveDrivers returned pairs, for every target each requested
\* platform is in exactly one of the target's pairs, as often as it was
\* requested, and the pairs hold requested platforms only.
C20_PairsPartitionPlatforms ==
  Resolved =>
    /\ DOMAIN resolve.m = DOMAIN resolve.opt
    /\ \A k \in DOMAIN resolve.opt :
         /\ \A j \in DOMAIN resolve.opt[k] :
              \E dp \in resolve.m[k] :
                /\ \A dp2 \in resolve.m[k] :
                     (\E i \in DOMAIN dp2.platforms : dp2.platforms[i] = resolve.opt[k][j])
                       <=> dp2 = dp
                /\ Cardinality({ i \in DOMAIN dp.platforms : dp.platforms[i] = resolve.opt[k][j] })
                     = Cardinality({ i \in DOMAIN resolve.opt[k] :
                                       resolve.opt[k][i] = resolve.opt[k][j] })
         /\ \A dp \in resolve.m[k] : \A i \in DOMAIN dp.platforms :
              \E j \in DOMAIN resolve.opt[k] : resolve.opt[k][j] = dp.platforms[i]

\* The platforms the workers listed for driver d report.
ReportedBy(d) ==
  UNION { UNION { { Format(Normalize(resolve.workers[i][w].Platforms[j])) :
                      j \in DOMAIN resolve.workers[i][w].Platforms } :
                  w \in DOMAIN resolve.workers[i] } :
          i \in { x \in DOMAIN resolve.from : resolve.from[x] = d } }

\* C39: when resolveDrivers returned pairs after listing the workers, a
\* platform of a pair that no driver declares and some worker reports is on
\* a pair whose driver index is that of a driver whose workers report it.
C39_LearnedPlatformOnReportingDriver ==
  (Resolved /\ resolve.path = "all") =>
    \A k \in DOMAIN resolve.m : \A dp \in resolve.m[k] : \A j \in DOMAIN dp.platforms :
      (/\ Format(dp.platforms[j]) \notin DOMAIN AvailableOf(resolve.drivers)
       /\ \E d \in DOMAIN resolve.drivers : Format(dp.platforms[j]) \in ReportedBy(d))
        => Format(dp.platforms[j]) \in ReportedBy(dp.driverIndex + 1)

\* The workers were listed and a target's two platforms went to two pairs.
C20_Witness ==
  /\ Resolved
  /\ resolve.path = "all"
  /\ \E k \in DOMAIN resolve.opt :
       /\ Len(resolve.opt[k]) = 2
       /\ Cardinality(resolve.m[k]) = 2

(***************************************************************************)
(* build: Build's preparation of the solve options, toSolveOpt, LoadInputs *)
(***************************************************************************)
\* Inputs of a target: a local context directory with the Dockerfile in it
\* ("dir") or on stdin ("dirStdin"), the Dockerfile on stdin as the context
\* ("stdin"), or no context path ("none").
InputKinds == {"dir", "dirStdin", "stdin", "none"}

\* The temporary directory LoadInputs makes for pair i of target k.
TempDir(k, i, pattern) == [target |-> k, pair |-> i, pattern |-> pattern]

\* The loop of Build over the targets, in the map's order, and the pairs of
\* each.
RECURSIVE PairsInOrder(_, _)
PairsInOrder(order, pairs) ==
  IF Len(order) = 0 THEN <<>>
  ELSE [i \in 1..pairs[Head(order)] |-> [k |-> Head(order), i |-> i]]
         \o PairsInOrder(Tail(order), pairs)

\* Build has its driver pairs and starts the loop that prepares the solve
\* options.
BuildCall ==
  /\ build.pc = "idle"
  /\ \E T \in SUBSET Targets \ {{}} :
     \E inputs \in [T -> InputKinds] : \E pairs \in [T -> 1..MaxPairs] : \E order \in Listings(T) :
       build' = [pc |-> "loop", inputs |-> inputs, work |-> PairsInOrder(order, pairs),
                 toRemove |-> {}, defers |-> {}, err |-> FALSE]
  /\ UNCHANGED <<tempDirs, notBuild>>

\* Build returns an error met while it prepares a pair.
Failing == [build EXCEPT !.pc = "returning", !.err = TRUE, !.toRemove = {}]

\* toSolveOpt up to LoadInputs: one of its checks may fail, with nothing yet
\* to release.
ToSolveOptEnter ==
  /\ build.pc = "loop"
  /\ build.work # <<>>
  /\ \E ok \in BOOLEAN :
       build' = IF ok THEN [build EXCEPT !.pc = "loadInputs", !.toRemove = {}] ELSE Failing
  /\ UNCHANGED <<tempDirs, notBuild>>

\* LoadInputs up to createTempDockerfile: no context path is an error; a
\* Dockerfile on stdin as the context gets an empty temporary context
\* directory.
LoadInputs ==
  /\ build.pc = "loadInputs"
  /\ LET k == Head(build.work).k
         i == Head(build.work).i
         kind == build.inputs[k]
     IN IF kind = "none" THEN build' = Failing /\ UNCHANGED tempDirs
        ELSE IF kind = "dir"
          THEN build' = [build EXCEPT !.pc = "afterLoad"] /\ UNCHANGED tempDirs
        ELSE IF kind = "stdin"
          THEN /\ tempDirs' = tempDirs \cup {TempDir(k, i, "empty-dir")}
               /\ build' = [build EXCEPT !.pc = "createTempDockerfile",
                                         !.toRemove = {TempDir(k, i, "empty-dir")}]
        ELSE build' = [build EXCEPT !.pc = "createTempDockerfile"] /\ UNCHANGED tempDirs
  /\ UNCHANGED notBuild

\* createTempDockerfile: ioutil.TempDir may fail; after it the directory
\* exists, and creating or writing the file may fail.  LoadInputs returns
\* the error of either, and otherwise adds the directory to toRemove.
CreateTempDockerfile ==
  /\ build.pc = "createTempDockerfile"
  /\ LET dir == TempDir(Head(build.work).k, Head(build.work).i, "dockerfile")
     IN \/ build' = Failing /\ UNCHANGED tempDirs
        \/ build' = Failing /\ tempDirs' = tempDirs \cup {dir}
        \/ /\ build' = [build EXCEPT !.pc = "afterLoad", !.toRemove = @ \cup {dir}]
           /\ tempDirs' = tempDirs \cup {dir}
  /\ UNCHANGED notBuild

\* toSolveOpt after LoadInputs: the release of LoadInputs is in its defers;
\* a later check that fails runs them, and otherwise Build appends the
\* release to its own defers and goes to the next pair.
ToSolveOptReturn ==
  /\ build.pc = "afterLoad"
  /\ \E ok \in BOOLEAN :
       IF ok THEN /\ build' = [build EXCEPT !.pc = "loop", !.work = Tail(@), !.toRemove = {},
                                            !.defers = @ \cup build.toRemove]
                  /\ UNCHANGED tempDirs
       ELSE /\ build' = Failing
            /\ tempDirs' = tempDirs \ build.toRemove
  /\ UNCHANGED notBuild

\* Every pair is prepared: the solves run and eg.Wait returns nil or an
\* error.
BuildWait ==
  /\ build.pc = "loop"
  /\ build.work = <<>>
  /\ \E ok \in BOOLEAN : build' = [build EXCEPT !.pc = "returning", !.err = ~ok]
  /\ UNCHANGED <<tempDirs, notBuild>>

\* Build returns: its deferred function runs the defers when err is not nil.
BuildReturn ==
  /\ build.pc = "returning"
  /\ build' = [build EXCEPT !.pc = "returned"]
  /\ tempDirs' = IF build.err THEN tempDirs \ build.defers ELSE tempDirs
  /\ UNCHANGED notBuild

BuildNext ==
  \/ BuildCall
  \/ ToSolveOptEnter
  \/ LoadInputs
  \/ CreateTempDockerfile
  \/ ToSolveOptReturn
  \/ BuildWait
  \/ BuildReturn

BuildSpec == Init /\ [][BuildNext]_vars

\* C19: when Build has returned, with or without an error, none of the
\* staging directories made while it prepared the build is left.
C19_StagingDirsRemoved ==
  build.pc = "returned" => tempDirs = {}

(***************************************************************************)
(* toSolveOpt: the checks of the build options, LoadInputs, and the solve  *)
(***************************************************************************)
MaxExports == 2    \* entries of opt.Exports

notOpt == <<proxyVars, loadVars, bootVars, listenVars, outerVars, chooseVars, cliVars,
            mdVars, rmVars>>

\* strconv.ParseBool with its error dropped: true for the strings it reads
\* as true, false for every other string.
ParseBool(str) == str \in {"1", "t", "T", "TRUE", "true", "True"}

\* isRootless of the pod's label.
isRootless(rootless) == ParseBool(rootless)

\* The pod ChoosePod returns to Features, or none.
NoPod == [containers |-> 0, runtime |-> "", rootless |-> "", err |-> TRUE]
FeaturePods ==
  {NoPod} \cup [containers : {0, 1}, runtime : {"containerd", "docker", "cri-o"},
                rootless : {"", "true", "false", "yes"}, err : {FALSE}]

\* Driver.Features.
Features(pod) ==
  LET known == ~pod.err /\ pod.containers > 0 /\ ~isRootless(pod.rootless)
  IN [OCIExporter |-> TRUE,
      DockerExporter |-> known /\ pod.runtime = "docker",
      ContainerdExporter |-> known /\ pod.runtime = "containerd",
      CacheExport |-> TRUE,
      MultiPlatform |-> TRUE]

\* The entries of opt.Exports: the type and the attributes name and push.
ExportEntries ==
  [Type : {"runtime", "image", "docker", "local"}, name : {"", "repo/img"},
   push : {"", "true", "no"}]
ExportLists == UNION { [1..n -> ExportEntries] : n \in 0..MaxExports }

\* opt.Tags: none, one that parses, one that does not.
TagLists == { <<>>, <<"repo/img:v1">>, <<"Repo/IMG">> }
ValidTag(tag) == tag = "repo/img:v1"

\* opt.Inputs and what standard input holds.
InputSets ==
  [ContextPath : {"", "-", "dir", "https://host/repo.git", "missing"},
   DockerfilePath : {"", "-", "dir/Dockerfile"},
   InStream : {"archive", "text", "unreadable"}]

MsgImageIDFile == "image ID file cannot be specified when building for multiple platforms"
MsgZeroOutputs == "zero outputs currently unsupported"
MsgMultipleOutputs == "multiple outputs currently unsupported"
MsgLoadNotSupported == "loading image into cluster runtime not supported by this builder, please specify --push or a client local output: --output=type=local,dest=. --output=type=tar,dest=out.tar "
MsgTagNeeded == "tag is needed when pushing to registry"
MsgNotSupported == "feature is currently not supported for driver"
errStdinConflict == "invalid argument: can't use stdin for both build context and dockerfile"
errDockerfileConflict == "ambiguous Dockerfile source: both stdin and flag correspond to Dockerfiles"

\* The steps of toSolveOpt in the order of the code.
Steps == <<"imageIDFile", "cacheTo", "exportCount", "runtimeExports", "exporterNames",
           "setUpExporters", "LoadInputs", "frontendAttrs">>
StepNo(step) == IF step = "none" THEN 0 ELSE CHOOSE i \in DOMAIN Steps : Steps[i] = step

\* toSolveOpt has gone through the step, with or without an error.
Through(step) == StepNo(tso.at) >= StepNo(step)

\* toSolveOpt returns the error from the step.
Fails(step, msg) == [tso EXCEPT !.pc = "returned", !.at = step, !.err = msg]

\* The tasks of Build's errgroup for one target on one driver, before they
\* are started: the solve task, the task that combines the results, the
\* wait group between them, the group's context and first error, res[0] and
\* the image ID file.
NoTasks == [solve |-> "off", solveErr |-> "", wgDone |-> FALSE, comb |-> "off",
            ctxDone |-> FALSE, egErr |-> "", res |-> "nil", file |-> "absent"]

\* Build calls toSolveOpt for a driver with its options.
ToSolveOptCall ==
  /\ tso.pc = "idle"
  /\ \E exports \in ExportLists : \E idFile \in BOOLEAN :
       tso' = [pc |-> "imageIDFile", at |-> "none", err |-> "",
               ImageIDFile |-> idFile, given |-> exports, Exports |-> exports,
               driverFeatures |-> <<>>, Tags |-> <<>>, Inputs |-> <<>>, stdin |-> {},
               task |-> NoTasks]
  /\ UNCHANGED notOpt

\* An image ID file is refused for several platforms, and a stale file is
\* removed, which may fail.
CheckImageIDFile ==
  /\ tso.pc = "imageIDFile"
  /\ \E multiPlatform \in BOOLEAN : \E removed \in BOOLEAN :
       tso' = IF tso.ImageIDFile /\ multiPlatform THEN Fails("imageIDFile", MsgImageIDFile)
              ELSE IF tso.ImageIDFile /\ ~removed
                THEN Fails("imageIDFile", "removing image ID file")
              ELSE [tso EXCEPT !.pc = "cacheTo", !.at = "imageIDFile"]
  /\ UNCHANGED notOpt

\* A cache export other than inline needs the driver's CacheExport feature.
CheckCacheTo ==
  /\ tso.pc = "cacheTo"
  /\ \E pod \in FeaturePods : \E remoteCache \in BOOLEAN :
       tso' = IF remoteCache /\ ~Features(pod).CacheExport
                THEN Fails("cacheTo", MsgNotSupported)
                ELSE [tso EXCEPT !.pc = "exportCount", !.at = "cacheTo"]
  /\ UNCHANGED notOpt

\* Exactly one export is accepted.
CheckExportCount ==
  /\ tso.pc = "exportCount"
  /\ tso' = IF Len(tso.Exports) = 1 THEN [tso EXCEPT !.pc = "runtimeExports", !.at = "exportCount"]
            ELSE IF Len(tso.Exports) = 0 THEN Fails("exportCount", MsgZeroOutputs)
            ELSE Fails("exportCount", MsgMultipleOutputs)
  /\ UNCHANGED notOpt

\* A dispatch that sends the runtime export to the oci exporter when the
\* builder has neither runtime exporter.
RuntimeExportTypeOci(driverFeatures) ==
  IF driverFeatures.ContainerdExporter THEN "image"
  ELSE IF driverFeatures.DockerExporter THEN "docker"
  ELSE "oci"

\* The type a "runtime" export becomes: "" when the builder has neither
\* runtime exporter.
RuntimeExportType(driverFeatures) ==
  IF driverFeatures.ContainerdExporter THEN "image"
  ELSE IF driverFeatures.DockerExporter THEN "docker"
  ELSE ""

\* driverFeatures is read, and every "runtime" export becomes the export of
\* the builder's runtime, or toSolveOpt returns the error.
RuntimeExports ==
  /\ tso.pc = "runtimeExports"
  /\ \E pod \in FeaturePods :
       LET driverFeatures == Features(pod)
           type == RuntimeExportType(driverFeatures)
       IN tso' = IF \E i \in DOMAIN tso.Exports : tso.Exports[i].Type = "runtime" /\ type = ""
                   THEN [Fails("runtimeExports", MsgLoadNotSupported)
                           EXCEPT !.driverFeatures = driverFeatures]
                   ELSE [tso EXCEPT !.pc = "exporterNames", !.at = "runtimeExports",
                           !.driverFeatures = driverFeatures,
                           !.Exports = [i \in DOMAIN tso.Exports |->
                                          IF tso.Exports[i].Type = "runtime"
                                            THEN [tso.Exports[i] EXCEPT !.Type = type]
                                            ELSE tso.Exports[i]]]
  /\ UNCHANGED notOpt

\* A check for the missing tag that never finds one missing.
TagMissingNever(e) == FALSE

\* Without tags: an image export without a name and with push set to true.
TagMissing(e) ==
  e.Type = "image" /\ e.name = "" /\ e.push # "" /\ ParseBool(e.push)

\* The image exporters take their names from the tags; without tags, a
\* pushing image export needs a name.
ExporterNames ==
  /\ tso.pc = "exporterNames"
  /\ \E tags \in TagLists :
       tso' = IF Len(tags) > 0
                THEN IF \E i \in DOMAIN tags : ~ValidTag(tags[i])
                       THEN [Fails("exporterNames", "invalid tag") EXCEPT !.Tags = tags]
                       ELSE [tso EXCEPT !.pc = "setUpExporters", !.at = "exporterNames",
                               !.Tags = tags,
                               !.Exports = [i \in DOMAIN tso.Exports |->
                                              IF tso.Exports[i].Type \in {"image", "oci", "docker"}
                                                THEN [tso.Exports[i] EXCEPT !.name = tags[1]]
                                                ELSE tso.Exports[i]]]
              ELSE IF \E i \in DOMAIN tso.Exports : TagMissing(tso.Exports[i])
                THEN [Fails("exporterNames", MsgTagNeeded) EXCEPT !.Tags = tags]
              ELSE [tso EXCEPT !.pc = "setUpExporters", !.at = "exporterNames", !.Tags = tags]
  /\ UNCHANGED notOpt

\* The error the set-up of export e ends with, "" when it goes through; ok
\* tells whether the calls it makes (the docker load callback, List) succeed.
SetUpError(e, ok) ==
  LET pushing == e.push # "" /\ ParseBool(e.push)
  IN IF e.Type \in {"local", "tar"} /\ tso.ImageIDFile
       THEN "local and tar exporters are incompatible with image ID file"
     ELSE IF e.Type = "oci" /\ ~tso.driverFeatures.OCIExporter THEN MsgNotSupported
     ELSE IF e.Type = "docker" /\ ~tso.driverFeatures.DockerExporter THEN MsgNotSupported
     ELSE IF e.Type = "docker" /\ ~ok THEN "docker load failed"
     ELSE IF e.Type = "containerd" THEN MsgNotSupported
     ELSE IF e.Type = "image" /\ ~pushing /\ ~tso.driverFeatures.ContainerdExporter
       THEN MsgNotSupported
     ELSE IF e.Type = "image" /\ ~pushing /\ ~ok THEN "failed to lookup builder deployments"
     ELSE ""

\* The loop that sets up the exporters.
SetUpExporters ==
  /\ tso.pc = "setUpExporters"
  /\ \E ok \in BOOLEAN :
       LET errs == { SetUpError(tso.Exports[i], ok) : i \in DOMAIN tso.Exports } \ {""}
       IN tso' = IF errs # {} THEN Fails("setUpExporters", CHOOSE m \in errs : TRUE)
                 ELSE [tso EXCEPT !.pc = "LoadInputs", !.at = "setUpExporters"]
  /\ UNCHANGED notOpt

\* LoadInputs without its test for "-" given twice.
StdinRoutingUnchecked(inp) ==
  IF inp.ContextPath = ""
    THEN [err |-> "please specify build context", stdin |-> {}]
  ELSE IF inp.ContextPath = "-"
    THEN IF inp.InStream = "unreadable"
           THEN [err |-> "failed to peek context header from STDIN", stdin |-> {}]
         ELSE IF inp.InStream = "archive" THEN [err |-> "", stdin |-> {"context"}]
         ELSE IF inp.DockerfilePath # "" THEN [err |-> errDockerfileConflict, stdin |-> {}]
         ELSE [err |-> "", stdin |-> {"dockerfile"}]
  ELSE IF inp.ContextPath = "dir"
    THEN [err |-> "", stdin |-> IF inp.DockerfilePath = "-" THEN {"dockerfile"} ELSE {}]
  ELSE IF inp.ContextPath = "https://host/repo.git"
    THEN IF inp.DockerfilePath = "-"
           THEN [err |-> "Dockerfile from stdin is not supported with remote contexts",
                 stdin |-> {}]
           ELSE [err |-> "", stdin |-> {}]
  ELSE [err |-> "unable to prepare context: path not found", stdin |-> {}]

\* LoadInputs up to createTempDockerfile: its error, or what it takes from
\* standard input, the context, the Dockerfile, or neither.
StdinRouting(inp) ==
  IF inp.ContextPath = "-" /\ inp.DockerfilePath = "-"
    THEN [err |-> errStdinConflict, stdin |-> {}]
    ELSE StdinRoutingUnchecked(inp)

\* toSolveOpt calls LoadInputs: the Dockerfile taken from standard input is
\* written to a temporary file, which may fail.
ToSolveOptLoadInputs ==
  /\ tso.pc = "LoadInputs"
  /\ \E inp \in InputSets : \E written \in BOOLEAN :
       LET r == StdinRouting(inp)
       IN tso' = IF r.err # ""
                   THEN [Fails("LoadInputs", r.err) EXCEPT !.Inputs = inp, !.stdin = r.stdin]
                 ELSE IF "dockerfile" \in r.stdin /\ ~written
                   THEN [Fails("LoadInputs", "createTempDockerfile failed")
                           EXCEPT !.Inputs = inp, !.stdin = r.stdin]
                 ELSE [tso EXCEPT !.pc = "frontendAttrs", !.at = "LoadInputs",
                         !.Inputs = inp, !.stdin = r.stdin]
  /\ UNCHANGED notOpt

\* The rest of toSolveOpt: the frontend attributes, the network mode and the
\* extra hosts, either of which may be refused.
FrontendAttrs ==
  /\ tso.pc = "frontendAttrs"
  /\ \E ok \in BOOLEAN :
       tso' = IF ok THEN [tso EXCEPT !.pc = "ready", !.at = "frontendAttrs"]
              ELSE Fails("frontendAttrs", "network mode not supported by buildkit")
  /\ UNCHANGED notOpt

\* Build runs the solve with the options toSolveOpt returned.
BuildSolve ==
  /\ tso.pc = "ready"
  /\ tso' = [tso EXCEPT !.pc = "solved"]
  /\ UNCHANGED notOpt

SolveOptNext ==
  \/ ToSolveOptCall
  \/ CheckImageIDFile
  \/ CheckCacheTo
  \/ CheckExportCount
  \/ RuntimeExports
  \/ ExporterNames
  \/ SetUpExporters
  \/ ToSolveOptLoadInputs
  \/ FrontendAttrs
  \/ BuildSolve

SolveOptSpec == Init /\ [][SolveOptNext]_vars

(***************************************************************************)
(* Build: the solve task and the task that combines the results            *)
(***************************************************************************)
MsgSolveFailed == "failed to solve"
MsgCanceled == "context canceled"

\* errgroup: the first error a task returns is the group's, and cancels the
\* group's context.
GroupRecords(task, err) ==
  IF err = "" THEN task
  ELSE [task EXCEPT !.egErr = IF task.egErr = "" THEN err ELSE task.egErr,
                    !.ctxDone = TRUE]

\* Build starts the combining task, which waits for the wait group, and the
\* solve task.
BuildStartTasks ==
  /\ tso.pc = "ready"
  /\ tso' = [tso EXCEPT !.pc = "tasks", !.task.solve = "running", !.task.comb = "waiting"]
  /\ UNCHANGED notOpt

\* c.Solve returns a response, which the task stores in res[0], or an error;
\* the deferred wg.Done() runs as the task's function returns.
SolveTaskEnds ==
  /\ tso.pc = "tasks"
  /\ tso.task.solve = "running"
  /\ \E err \in {"", MsgSolveFailed} :
       tso' = [tso EXCEPT !.task.solve = "ended", !.task.solveErr = err,
                          !.task.wgDone = TRUE,
                          !.task.res = IF err = "" THEN "rr" ELSE "nil"]
  /\ UNCHANGED notOpt

\* The errgroup takes the value the solve task's function returned.
SolveTaskRecorded ==
  /\ tso.pc = "tasks"
  /\ tso.task.solve = "ended"
  /\ tso' = [tso EXCEPT !.task = [GroupRecords(tso.task, tso.task.solveErr)
                                    EXCEPT !.solve = "done"]]
  /\ UNCHANGED notOpt

\* wg.Wait() has returned: the combining task returns ctx.Err() when the
\* group's context is done, and goes on to res[0] otherwise.
CombineWakes ==
  /\ tso.pc = "tasks"
  /\ tso.task.comb = "waiting"
  /\ tso.task.wgDone
  /\ tso' = IF tso.task.ctxDone
              THEN [tso EXCEPT !.task = [GroupRecords(tso.task, MsgCanceled)
                                           EXCEPT !.comb = "done"]]
              ELSE [tso EXCEPT !.task.comb = "combine"]
  /\ UNCHANGED notOpt

\* resp[k] = res[0]; with one result and an image ID file asked for, the
\* digest in res[0].ExporterResponse is written to the file: reading it
\* through a nil res[0] is a nil pointer dereference, which ends the program.
CombineResult ==
  /\ tso.pc = "tasks"
  /\ tso.task.comb = "combine"
  /\ tso' = IF ~tso.ImageIDFile THEN [tso EXCEPT !.task.comb = "done"]
            ELSE IF tso.task.res = "nil" THEN [tso EXCEPT !.pc = "panicked"]
            ELSE [tso EXCEPT !.task.comb = "done", !.task.file = "written"]
  /\ UNCHANGED notOpt

\* eg.Wait() returns once both tasks have returned, and Build returns the
\* group's error or the responses.
BuildWaitTasks ==
  /\ tso.pc = "tasks"
  /\ tso.task.solve = "done" /\ tso.task.comb = "done"
  /\ tso' = [tso EXCEPT !.pc = "built", !.err = tso.task.egErr]
  /\ UNCHANGED notOpt

SolveTaskNext ==
  \/ ToSolveOptCall
  \/ CheckImageIDFile
  \/ CheckCacheTo
  \/ CheckExportCount
  \/ RuntimeExports
  \/ ExporterNames
  \/ SetUpExporters
  \/ ToSolveOptLoadInputs
  \/ FrontendAttrs
  \/ BuildStartTasks
  \/ SolveTaskEnds
  \/ SolveTaskRecorded
  \/ CombineWakes
  \/ CombineResult
  \/ BuildWaitTasks

SolveTaskSpec == Init /\ [][SolveTaskNext]_vars

\* C37: in a build with an image ID file asked for whose solve has failed,
\* the file is not written, the combining task does not end the program by
\* reading the response that was not produced, and Build, once it has
\* returned, has returned the solve's error.
C37_FailedSolveWritesNoImageID ==
  (/\ tso.pc \in {"tasks", "panicked", "built"}
   /\ tso.ImageIDFile
   /\ tso.task.solveErr = MsgSolveFailed) =>
     /\ tso.task.file = "absent"
     /\ tso.pc # "panicked"
     /\ tso.pc = "built" => tso.err = MsgSolveFailed

(***************************************************************************)
(* The writer newDockerLoader returns for the docker exporter: one pipe,   *)
(* one docker client and one started channel for each node of the builder. *)
(* Its caller, the receiving side of the session's file send, writes the   *)
(* chunks of the image one after the other and then closes the writer.     *)
(***************************************************************************)
MsgNoBuilders == "no builders found"
MsgClosedPipe == "io: read/write on closed pipe"

\* newDockerLoader lists the builder's nodes and fails without one; else it
\* returns the waitingWriter, none of whose tasks runs yet.
newDockerLoader ==
  /\ tso.pc = "idle"
  /\ \/ tso' = [NoOpt EXCEPT !.pc = "returned", !.at = "newDockerLoader",
                             !.err = MsgNoBuilders]
     \/ \E n \in 1..MaxNodes :
          tso' = [pc |-> "loader", at |-> "newDockerLoader", err |-> "",
                  n |-> n, once |-> FALSE,
                  f |-> [i \in 1..n |-> "off"],
                  started |-> [i \in 1..n |-> FALSE],
                  pws |-> [i \in 1..n |-> "open"],
                  readers |-> [i \in 1..n |-> "open"],
                  caller |-> "ready", idx |-> 0, written |-> 0, werr |-> ""]
  /\ UNCHANGED notOpt

\* Write: the first call starts f(i) for every node, and every call goes on
\* to the MultiWriter, which writes to the pipes in their order.
waitingWriterWrite ==
  /\ tso.pc = "loader" /\ tso.caller = "ready"
  /\ tso.written < MaxChunks /\ tso.werr = ""
  /\ tso' = [tso EXCEPT !.caller = "Write", !.idx = 1, !.once = TRUE,
                        !.f = IF tso.once THEN @ ELSE [i \in 1..tso.n |-> "ImageLoad"]]
  /\ UNCHANGED notOpt

\* The write to the pipe of the next node: it fails when the reader was
\* closed, else it ends when the node's client has read the chunk.
MultiWriterWrite ==
  /\ tso.pc = "loader" /\ tso.caller = "Write"
  /\ LET i == tso.idx
     IN IF tso.readers[i] = "closed"
          THEN tso' = [tso EXCEPT !.caller = "ready", !.werr = MsgClosedPipe]
          ELSE /\ tso.f[i] \in {"ImageLoad", "reading"}
               /\ tso' = IF i < tso.n THEN [tso EXCEPT !.idx = i + 1]
                         ELSE [tso EXCEPT !.caller = "ready", !.written = @ + 1]
  /\ UNCHANGED notOpt

\* f(i): the client's ImageLoad returns an error, and the task closes its
\* reader and the started channel and ends; or it returns the response, and
\* the task closes the started channel and reads the response.
LoaderImageLoad(i) ==
  /\ tso.pc = "loader" /\ i \in 1..tso.n
  /\ tso.f[i] = "ImageLoad"
  /\ \/ tso' = [tso EXCEPT !.f[i] = "done", !.readers[i] = "closed", !.started[i] = TRUE]
     \/ tso' = [tso EXCEPT !.f[i] = "reading", !.started[i] = TRUE]
  /\ UNCHANGED notOpt

\* f(i): the response ends once the node has seen the end of the image.
LoaderResponseEnds(i) ==
  /\ tso.pc = "loader" /\ i \in 1..tso.n
  /\ tso.f[i] = "reading" /\ tso.pws[i] = "closed"
  /\ tso' = [tso EXCEPT !.f[i] = "done"]
  /\ UNCHANGED notOpt

\* Close closes every pipe writer and goes on to the started channels.
waitingWriterClose ==
  /\ tso.pc = "loader" /\ tso.caller = "ready"
  /\ tso' = [tso EXCEPT !.caller = "Close", !.idx = 1,
                        !.pws = [i \in 1..tso.n |-> "closed"]]
  /\ UNCHANGED notOpt

\* Close receives from the next started channel once it is closed, and
\* returns after the last.
CloseReceivesStarted ==
  /\ tso.pc = "loader" /\ tso.caller = "Close"
  /\ tso.started[tso.idx]
  /\ tso' = IF tso.idx < tso.n THEN [tso EXCEPT !.idx = @ + 1]
            ELSE [tso EXCEPT !.caller = "closed"]
  /\ UNCHANGED notOpt

LoaderNext ==
  \/ newDockerLoader
  \/ waitingWriterWrite
  \/ MultiWriterWrite
  \/ \E i \in 1..MaxNodes : LoaderImageLoad(i)
  \/ \E i \in 1..MaxNodes : LoaderResponseEnds(i)
  \/ waitingWriterClose
  \/ CloseReceivesStarted

\* A task that can go on does, and so do the calls of Write and Close.
LoaderFairness ==
  /\ WF_vars(MultiWriterWrite)
  /\ WF_vars(CloseReceivesStarted)
  /\ \A i \in 1..MaxNodes : WF_vars(LoaderImageLoad(i)) /\ WF_vars(LoaderResponseEnds(i))

LoaderLiveSpec == Init /\ [][LoaderNext]_vars /\ LoaderFairness

\* C40: a call of Close on the writer newDockerLoader returned comes back,
\* whether or not a Write has started the tasks of the nodes.
C40_CloseReturns ==
  (tso.pc = "loader" /\ tso.caller = "Close") ~> (tso.pc = "loader" /\ tso.caller = "closed")

\* The same for a writer that was written to.
CloseReturnsAfterWrite ==
  (tso.pc = "loader" /\ tso.caller = "Close" /\ tso.once)
    ~> (tso.pc = "loader" /\ tso.caller = "closed")

\* C28: a build whose export is the generic "runtime" one, on a builder whose
\* features, when toSolveOpt reads them, have neither the containerd nor the
\* docker exporter, returns from toSolveOpt there with the error "loading
\* image into cluster runtime not supported by this builder, please specify
\* --push or a client local output ...", and no solve is run.
C28_LoadWithoutRuntimeExporterFails ==
  (/\ Through("runtimeExports")
   /\ tso.given[1].Type = "runtime"
   /\ ~tso.driverFeatures.ContainerdExporter
   /\ ~tso.driverFeatures.DockerExporter) =>
     /\ tso.pc = "returned"
     /\ tso.at = "runtimeExports"
     /\ tso.err = MsgLoadNotSupported

\* toSolveOpt has returned that error for a runtime export.
C28_Witness ==
  /\ tso.pc = "returned"
  /\ tso.at = "runtimeExports"
  /\ tso.given[1].Type = "runtime"
  /\ tso.err = MsgLoadNotSupported
  /\ ~tso.driverFeatures.ContainerdExporter /\ ~tso.driverFeatures.DockerExporter

\* C29: a build without tags whose image export has push set to true and no
\* name returns from toSolveOpt with the error "tag is needed when pushing to
\* registry", and no solve is run.
C29_PushWithoutTagFails ==
  (/\ Through("exporterNames")
   /\ tso.Tags = <<>>
   /\ tso.given[1].Type = "image"
   /\ tso.given[1].name = ""
   /\ tso.given[1].push = "true") =>
     /\ tso.pc = "returned"
     /\ tso.at = "exporterNames"
     /\ tso.err = MsgTagNeeded

\* toSolveOpt has returned that error for an image export with push set.
C29_Witness ==
  /\ tso.pc = "returned"
  /\ tso.at = "exporterNames"
  /\ tso.err = MsgTagNeeded
  /\ tso.Tags = <<>>
  /\ tso.given = <<[Type |-> "image", name |-> "", push |-> "true"]>>

\* C30: LoadInputs returns an error when the context path and the Dockerfile
\* path are both "-", and when it returns without an error it has taken at
\* most one of the context and the Dockerfile from standard input.
C30_StdinUsedOnce ==
  Through("LoadInputs") =>
    /\ (tso.Inputs.ContextPath = "-" /\ tso.Inputs.DockerfilePath = "-") =>
         /\ tso.pc = "returned"
         /\ tso.err = errStdinConflict
    /\ ~(tso.pc = "returned" /\ tso.at = "LoadInputs") => Cardinality(tso.stdin) <= 1

\* LoadInputs has refused "-" for both paths with an archive on standard
\* input.
C30_Witness ==
  /\ tso.pc = "returned" /\ tso.at = "LoadInputs" /\ tso.err = errStdinConflict
  /\ tso.Inputs.ContextPath = "-" /\ tso.Inputs.DockerfilePath = "-"
  /\ tso.Inputs.InStream = "archive"

====
